---- MODULE Spec2Model ----
(***************************************************************************)
(* A model of package pqutil (engagespark/pql): the textual codec and the  *)
(* dynamic Value model for PostgreSQL array / row / hstore literals.       *)
(*                                                                         *)
(* Bytes are modelled as their ASCII codes, byte strings as sequences of   *)
(* codes.  Go indices are 0-based; At(s, i) and Slice(s, a, z) keep the    *)
(* source's indices.                                                       *)
(***************************************************************************)
EXTENDS Integers, Sequences, FiniteSets, TLC

VARIABLES
    kind,  \* the Valstructor that built val
    val,   \* the Value under test (a pgInteger, pgText, pgRow, pgArray ...)
    arg,   \* the argument of the last call (a source, a literal, a name)
    ret,   \* what the last call on val returned
    op,    \* the name of the last call, "new" right after construction
    enc,   \* what bytes() of val returned since val last changed
    back   \* a fresh Value of kind decoded from enc, and its error

vars == <<kind, val, arg, ret, op, enc, back>>

(***************************************************************************)
(* Bytes                                                                   *)
(***************************************************************************)
Ascii ==
    (" " :> 32) @@ ("\"" :> 34) @@ ("$" :> 36) @@ ("(" :> 40) @@ (")" :> 41) @@ ("+" :> 43) @@
    ("," :> 44) @@ ("-" :> 45) @@ ("." :> 46) @@ ("0" :> 48) @@ ("1" :> 49) @@
    ("2" :> 50) @@ ("3" :> 51) @@ ("4" :> 52) @@ ("5" :> 53) @@ ("6" :> 54) @@
    ("7" :> 55) @@ ("8" :> 56) @@ ("9" :> 57) @@ (":" :> 58) @@ ("=" :> 61) @@
    (">" :> 62) @@ ("A" :> 65) @@
    ("D" :> 68) @@ ("E" :> 69) @@ ("H" :> 72) @@ ("R" :> 82) @@
    ("W" :> 87) @@ ("i" :> 105) @@ ("n" :> 110) @@ ("u" :> 117) @@
    ("L" :> 76) @@ ("N" :> 78) @@ ("T" :> 84) @@ ("U" :> 85) @@
    ("Z" :> 90) @@ ("\\" :> 92) @@ ("a" :> 97) @@ ("b" :> 98) @@ ("c" :> 99) @@
    ("d" :> 100) @@ ("e" :> 101) @@ ("f" :> 102) @@ ("h" :> 104) @@
    ("j" :> 106) @@ ("k" :> 107) @@ ("o" :> 111) @@ ("t" :> 116) @@
    ("v" :> 118) @@ ("x" :> 120) @@ ("{" :> 123) @@ ("}" :> 125)

\* the byte string of a tuple of one-character strings
B(t) == [i \in 1..Len(t) |-> Ascii[t[i]]]

LBRACE == Ascii["{"]
RBRACE == Ascii["}"]
LPAREN == Ascii["("]
RPAREN == Ascii[")"]
QUOTE == Ascii["\""]
BACKSLASH == Ascii["\\"]
COMMA == Ascii[","]
SPACE == Ascii[" "]

At(s, i) == s[i + 1]

\* s[a:z] of Go
Slice(s, a, z) == SubSeq(s, a + 1, z)

NoErr == "nil"

nullb == B(<<"N", "U", "L", "L">>)

\* bytes.Replace(s, old, new, -1): every non-overlapping old, left to right
RECURSIVE Replace(_, _, _)
Replace(s, old, new) ==
    IF Len(s) < Len(old) THEN s
    ELSE IF SubSeq(s, 1, Len(old)) = old
         THEN new \o Replace(SubSeq(s, Len(old) + 1, Len(s)), old, new)
         ELSE <<s[1]>> \o Replace(Tail(s), old, new)

escape(s, t) ==
    IF t = 0 THEN s
    ELSE LET s1 == Replace(s, <<BACKSLASH>>, <<BACKSLASH, BACKSLASH>>)
         IN  CASE t = 1 -> Replace(s1, <<QUOTE>>, <<BACKSLASH, QUOTE>>)
               [] t = 2 -> Replace(s1, <<QUOTE>>, <<QUOTE, QUOTE>>)
               [] OTHER -> s1

(***************************************************************************)
(* encoding/hex                                                            *)
(***************************************************************************)
\* hex.fromHexChar: the nibble of a hex digit, -1 for any other byte
fromHexChar(c) ==
    IF c >= 48 /\ c <= 57 THEN c - 48
    ELSE IF c >= 97 /\ c <= 102 THEN c - 97 + 10
    ELSE IF c >= 65 /\ c <= 70 THEN c - 65 + 10
    ELSE -1

\* hex.DecodeString: the bytes decoded before the first error
RECURSIVE hexDecodeString(_)
hexDecodeString(s) ==
    IF Len(s) < 2 THEN <<>>
    ELSE IF fromHexChar(s[1]) = -1 \/ fromHexChar(s[2]) = -1 THEN <<>>
    ELSE <<fromHexChar(s[1]) * 16 + fromHexChar(s[2])>>
             \o hexDecodeString(SubSeq(s, 3, Len(s)))

hexDigit(n) == IF n < 10 THEN 48 + n ELSE 97 + (n - 10)

\* fmt.Sprintf("%x", b): two lower-case hex digits per byte
RECURSIVE hexEncode(_)
hexEncode(b) ==
    IF b = <<>> THEN <<>>
    ELSE <<hexDigit(b[1] \div 16), hexDigit(b[1] % 16)>> \o hexEncode(Tail(b))

(***************************************************************************)
(* split                                                                   *)
(***************************************************************************)
ErrUnknownFormat == "cannot split data. Unknown format"
ErrMissingCloser == "cannot split data. missing closer"

\* the local variables of split before its loop
splitInit ==
    [parts |-> <<>>, ignore |-> FALSE, dep |-> 0, mode |-> 0, closer |-> 0,
     a |-> -1, z |-> -1, err |-> NoErr]

\* the switch of one loop iteration of split, on byte i
splitSwitch(s, i, st) ==
    LET b == At(s, i) IN
    IF i = 0 THEN
        IF b = LBRACE THEN [st EXCEPT !.mode = RBRACE]
        ELSE IF b = LPAREN THEN [st EXCEPT !.mode = RPAREN]
        ELSE [st EXCEPT !.err = ErrUnknownFormat]
    ELSE IF st.a = -1 THEN
        IF b = SPACE \/ b = COMMA THEN st
        ELSE IF b = LBRACE
             THEN [st EXCEPT !.a = i, !.dep = @ + 1, !.closer = RBRACE]
        ELSE IF b = QUOTE THEN [st EXCEPT !.a = i + 1, !.closer = QUOTE]
        ELSE [st EXCEPT !.a = i, !.closer = COMMA]
    ELSE IF i = Len(s) - 1 THEN
        IF b # st.mode THEN [st EXCEPT !.err = ErrMissingCloser]
        ELSE [st EXCEPT !.z = i - 1]
    ELSE
        IF ~st.ignore /\ st.mode = RBRACE /\ b = BACKSLASH
        THEN [st EXCEPT !.ignore = TRUE]
        ELSE IF ~st.ignore /\ st.mode = RPAREN /\ b = QUOTE
                /\ At(s, i + 1) = QUOTE
        THEN [st EXCEPT !.ignore = TRUE]
        ELSE IF st.ignore THEN [st EXCEPT !.ignore = FALSE]
        ELSE IF st.closer = RBRACE /\ (b = RBRACE \/ b = RBRACE) THEN
            IF b = LBRACE THEN [st EXCEPT !.dep = @ + 1]
            ELSE IF b = RBRACE THEN
                IF st.dep - 1 = 0 THEN [st EXCEPT !.dep = @ - 1, !.z = i]
                ELSE [st EXCEPT !.dep = @ - 1]
            ELSE st
        ELSE IF st.closer = QUOTE /\ b = st.closer
        THEN [st EXCEPT !.z = i - 1]
        ELSE IF st.closer = COMMA /\ b = st.closer
        THEN [st EXCEPT !.z = i - 1]
        ELSE st

\* the unescaping and hex decoding of one collected part
splitPart(s, st) ==
    LET p0 == Slice(s, st.a, st.z + 1)
        p1 == Replace(p0, <<BACKSLASH, BACKSLASH>>, <<BACKSLASH>>)
        p2 == IF st.mode = RBRACE
              THEN Replace(p1, <<BACKSLASH, QUOTE>>, <<QUOTE>>)
              ELSE IF st.mode = RPAREN
              THEN Replace(p1, <<QUOTE, QUOTE>>, <<QUOTE>>)
              ELSE p1
    IN  IF Len(p2) >= 2 /\ p2[1] = BACKSLASH /\ p2[2] = Ascii["x"]
        THEN hexDecodeString(SubSeq(p2, 3, Len(p2)))
        ELSE p2

\* the "check for end" block that closes each iteration
splitEnd(s, st) ==
    IF st.z # -1
    THEN [st EXCEPT !.parts = Append(@, splitPart(s, st)),
                    !.a = -1, !.z = -1, !.dep = 0]
    ELSE st

\* the rest of the loop once the switch of iteration i has run
RECURSIVE splitLoop(_, _, _)
splitNext(s, i, st1) ==
    IF st1.err # NoErr THEN st1
    ELSE splitLoop(s, i + 1, splitEnd(s, st1))

splitLoop(s, i, st) ==
    IF i >= Len(s) THEN st
    ELSE splitNext(s, i, splitSwitch(s, i, st))

\* what split returns from the final loop state: nil parts with an error
splitReturn(st) ==
    IF st.err # NoErr THEN [parts |-> <<>>, err |-> st.err]
    ELSE [parts |-> st.parts, err |-> NoErr]

\* split(s): [parts, err]
split(s) == splitReturn(splitLoop(s, 0, splitInit))

(***************************************************************************)
(* Integers.  TLC's integers are 32 bits wide, the program's 64: a number  *)
(* is its sign and its decimal digits, most significant first, zero being  *)
(* [neg |-> FALSE, mag |-> <<0>>]; comparison is exact at every width.     *)
(***************************************************************************)
Zero == [neg |-> FALSE, mag |-> <<0>>]

Pos(digits) == [neg |-> FALSE, mag |-> digits]

Neg(digits) == [neg |-> TRUE, mag |-> digits]

MagLess(x, y) ==
    \/ Len(x) < Len(y)
    \/ /\ Len(x) = Len(y)
       /\ \E i \in 1..Len(x) :
            /\ x[i] < y[i]
            /\ \A j \in 1..(i - 1) : x[j] = y[j]

\* x < y
NumLess(x, y) ==
    IF x.neg /\ ~y.neg THEN TRUE
    ELSE IF ~x.neg /\ y.neg THEN FALSE
    ELSE IF x.neg THEN MagLess(y.mag, x.mag)
    ELSE MagLess(x.mag, y.mag)

NumLeq(x, y) == x = y \/ NumLess(x, y)

\* math.MaxInt8 ... math.MaxUint64 and the matching minima
MaxInt8 == Pos(<<1, 2, 7>>)
MinInt8 == Neg(<<1, 2, 8>>)
MaxInt16 == Pos(<<3, 2, 7, 6, 7>>)
MinInt16 == Neg(<<3, 2, 7, 6, 8>>)
MaxInt32 == Pos(<<2, 1, 4, 7, 4, 8, 3, 6, 4, 7>>)
MinInt32 == Neg(<<2, 1, 4, 7, 4, 8, 3, 6, 4, 8>>)
MaxInt64 == Pos(<<9, 2, 2, 3, 3, 7, 2, 0, 3, 6, 8, 5, 4, 7, 7, 5, 8, 0, 7>>)
MinInt64 == Neg(<<9, 2, 2, 3, 3, 7, 2, 0, 3, 6, 8, 5, 4, 7, 7, 5, 8, 0, 8>>)
MaxUint8 == Pos(<<2, 5, 5>>)
MaxUint16 == Pos(<<6, 5, 5, 3, 5>>)
MaxUint32 == Pos(<<4, 2, 9, 4, 9, 6, 7, 2, 9, 5>>)
MaxUint64 == Pos(<<1, 8, 4, 4, 6, 7, 4, 4, 0, 7, 3, 7, 0, 9, 5, 5, 1, 6, 1, 5>>)

\* the values of Go's integer types (int and uint are 64 bits wide)
IntTypes ==
    {"int", "int8", "int16", "int32", "int64",
     "uint", "uint8", "uint16", "uint32", "uint64"}

TypeMin(t) ==
    CASE t = "int8" -> MinInt8
      [] t = "int16" -> MinInt16
      [] t = "int32" -> MinInt32
      [] t \in {"int", "int64"} -> MinInt64
      [] OTHER -> Zero

TypeMax(t) ==
    CASE t = "int8" -> MaxInt8
      [] t = "int16" -> MaxInt16
      [] t = "int32" -> MaxInt32
      [] t \in {"int", "int64"} -> MaxInt64
      [] t = "uint8" -> MaxUint8
      [] t = "uint16" -> MaxUint16
      [] t = "uint32" -> MaxUint32
      [] OTHER -> MaxUint64

InType(n, t) == NumLeq(TypeMin(t), n) /\ NumLeq(n, TypeMax(t))

ErrCannotFit == "Cannot fit into int"
ErrInvalidBitSize == "invalid bitSize"

\* fitInt with the INT2 case checked against the int8 limit
fitIntNarrow(v, bitSize) ==
    IF v.t \in {"uint", "uint64"} /\ ~NumLess(v.n, MaxInt64)
    THEN [r |-> Zero, err |-> ErrCannotFit]
    ELSE IF bitSize = 16 /\ ~NumLess(v.n, MaxInt8)
    THEN [r |-> Zero, err |-> ErrCannotFit]
    ELSE IF bitSize = 32 /\ ~NumLess(v.n, MaxInt32)
    THEN [r |-> Zero, err |-> ErrCannotFit]
    ELSE [r |-> v.n, err |-> NoErr]

\* fitInt(v, bitSize) for v of an integer type: [r, err]
fitInt(v, bitSize) ==
    IF v.t \in {"uint", "uint64"} /\ ~NumLess(v.n, MaxInt64)
    THEN [r |-> Zero, err |-> ErrCannotFit]
    ELSE LET r == v.n IN
         IF bitSize \notin {8, 16, 32, 64}
         THEN [r |-> Zero, err |-> ErrInvalidBitSize]
         ELSE LET ok == CASE bitSize = 8 -> NumLess(r, MaxInt8)
                          [] bitSize = 16 -> NumLess(r, MaxInt16)
                          [] bitSize = 32 -> NumLess(r, MaxInt32)
                          [] bitSize = 64 -> TRUE
              IN  IF ~ok THEN [r |-> Zero, err |-> ErrCannotFit]
                  ELSE [r |-> r, err |-> NoErr]

(***************************************************************************)
(* strconv.ParseInt(s, 10, bitSize) and fmt.Sprintf("%d", n)               *)
(***************************************************************************)
ErrSyntax == "strconv: invalid syntax"
ErrRange == "strconv: value out of range"

IsDigit(c) == c >= 48 /\ c <= 57

RECURSIVE stripZeros(_)
stripZeros(d) ==
    IF Len(d) > 1 /\ d[1] = 0 THEN stripZeros(Tail(d)) ELSE d

\* 1 << (bitSize - 1), the first magnitude that does not fit
cutoff(bitSize) ==
    CASE bitSize = 8 -> <<1, 2, 8>>
      [] bitSize = 16 -> <<3, 2, 7, 6, 8>>
      [] bitSize = 32 -> <<2, 1, 4, 7, 4, 8, 3, 6, 4, 8>>
      [] OTHER -> <<9, 2, 2, 3, 3, 7, 2, 0, 3, 6, 8, 5, 4, 7, 7, 5, 8, 0, 8>>

maxOf(bitSize) ==
    CASE bitSize = 8 -> MaxInt8
      [] bitSize = 16 -> MaxInt16
      [] bitSize = 32 -> MaxInt32
      [] OTHER -> MaxInt64

ParseInt(s, bitSize) ==
    LET signed == Len(s) > 0 /\ (s[1] = Ascii["+"] \/ s[1] = Ascii["-"])
        neg == Len(s) > 0 /\ s[1] = Ascii["-"]
        body == IF signed THEN Tail(s) ELSE s
    IN  IF body = <<>> \/ \E i \in 1..Len(body) : ~IsDigit(body[i])
        THEN [n |-> Zero, err |-> ErrSyntax]
        ELSE LET un == stripZeros([i \in 1..Len(body) |-> body[i] - 48]) IN
             IF ~neg /\ ~MagLess(un, cutoff(bitSize))
             THEN [n |-> maxOf(bitSize), err |-> ErrRange]
             ELSE IF neg /\ MagLess(cutoff(bitSize), un)
             THEN [n |-> Neg(cutoff(bitSize)), err |-> ErrRange]
             ELSE [n |-> IF un = <<0>> THEN Zero
                         ELSE [neg |-> neg, mag |-> un],
                   err |-> NoErr]

FormatInt(n) ==
    (IF n.neg THEN <<Ascii["-"]>> ELSE <<>>)
        \o [i \in 1..Len(n.mag) |-> 48 + n.mag[i]]

(***************************************************************************)
(* Sources (the interface{} handed to Scan, Append, Set and constructors)  *)
(*   [t |-> "nil"]                          nil                            *)
(*   [t |-> "int" ... "uint64", n |-> num]  a native integer               *)
(*   [t |-> "bytes", b |-> s]               []byte                         *)
(*   [t |-> "string", b |-> s]              string                         *)
(*   [t |-> "bool", v |-> b]                bool                           *)
(*   [t |-> "float32" / "float64", f |-> x] a native float                 *)
(*   [t |-> "time", tm |-> x]               time.Time                      *)
(*   [t |-> "list", xs |-> <<src ...>>]     []interface{}                  *)
(*   [t |-> "Value", v |-> value]           an already constructed Value   *)
(***************************************************************************)
Nil == [t |-> "nil"]

Bytes(s) == [t |-> "bytes", b |-> s]

Str(s) == [t |-> "string", b |-> s]

Native(t, n) == [t |-> t, n |-> n]

List(xs) == [t |-> "list", xs |-> xs]

ErrCannotSet == "cannot set Value with"
PanicIndex == "panic: index out of range"

(***************************************************************************)
(* pgInteger                                                               *)
(***************************************************************************)
pgIntegerScan(k, src) ==
    IF src.t = "nil" THEN [v |-> [k EXCEPT !.valid = FALSE], err |-> NoErr]
    ELSE LET k1 == [k EXCEPT !.valid = TRUE] IN
         IF src.t \in IntTypes THEN
             LET f == fitInt(src, k.bs) IN
             [v |-> [k1 EXCEPT !.n = f.r], err |-> f.err]
         ELSE IF src.t \in {"bytes", "string"} THEN
             LET f == ParseInt(src.b, k.bs) IN
             [v |-> [k1 EXCEPT !.n = f.n], err |-> f.err]
         ELSE [v |-> k1, err |-> ErrCannotSet]

pgIntegerBytes(k) ==
    IF ~k.valid THEN [b |-> nullb, err |-> NoErr]
    ELSE [b |-> FormatInt(k.n), err |-> NoErr]

\* &pgInteger{0, bs, false}
newInt(bs) == [k |-> "pgInteger", n |-> Zero, bs |-> bs, valid |-> FALSE]

(***************************************************************************)
(* pgNumeric (float sources are formatted by strconv, see pgFloat)         *)
(***************************************************************************)
newNumeric(prec, scale) ==
    [k |-> "pgNumeric", s |-> <<>>, prec |-> prec, scale |-> scale,
     valid |-> FALSE]

pgNumericBytes(k) ==
    IF ~k.valid THEN [b |-> nullb, err |-> NoErr]
    ELSE [b |-> k.s, err |-> NoErr]

(***************************************************************************)
(* pgEnum                                                                  *)
(***************************************************************************)
ErrEnum == "Value should be one of"

newEnum(labels) ==
    [k |-> "pgEnum", s |-> <<>>, ls |-> labels, valid |-> FALSE]

\* pgEnum.Scan without the check against the labels
pgEnumScanAny(k, src) ==
    IF src.t = "nil" THEN [v |-> [k EXCEPT !.valid = FALSE], err |-> NoErr]
    ELSE IF src.t \in {"bytes", "string"}
    THEN [v |-> [k EXCEPT !.valid = TRUE, !.s = src.b], err |-> NoErr]
    ELSE [v |-> [k EXCEPT !.valid = TRUE], err |-> ErrCannotSet]

pgEnumScan(k, src) ==
    IF src.t = "nil" THEN [v |-> [k EXCEPT !.valid = FALSE], err |-> NoErr]
    ELSE LET k1 == [k EXCEPT !.valid = TRUE] IN
         IF src.t \in {"bytes", "string"} THEN
             LET k2 == [k1 EXCEPT !.s = src.b]
                 ok == \E i \in 1..Len(k.ls) : k2.s = k.ls[i]
             IN  [v |-> k2, err |-> IF ok THEN NoErr ELSE ErrEnum]
         ELSE [v |-> k1, err |-> ErrCannotSet]

pgEnumBytes(k) ==
    IF ~k.valid THEN [b |-> nullb, err |-> NoErr]
    ELSE [b |-> k.s, err |-> NoErr]

(***************************************************************************)
(* pgBool                                                                  *)
(***************************************************************************)
newBool == [k |-> "pgBool", b |-> FALSE, valid |-> FALSE]

pgBoolScan(k, src) ==
    IF src.t = "nil" THEN [v |-> [k EXCEPT !.valid = FALSE], err |-> NoErr]
    ELSE LET k1 == [k EXCEPT !.valid = TRUE, !.b = FALSE] IN
         IF src.t \in {"bytes", "string"} THEN
             IF Len(src.b) = 0 THEN [v |-> k1, err |-> PanicIndex]
             ELSE IF src.b[1] = Ascii["t"] \/ src.b[1] = Ascii["1"]
                  THEN [v |-> [k1 EXCEPT !.b = TRUE], err |-> NoErr]
                  ELSE [v |-> k1, err |-> NoErr]
         ELSE IF src.t = "int" THEN
             IF src.n = Pos(<<1>>)
             THEN [v |-> [k1 EXCEPT !.b = TRUE], err |-> NoErr]
             ELSE [v |-> k1, err |-> NoErr]
         ELSE IF src.t = "bool"
         THEN [v |-> [k1 EXCEPT !.b = src.v], err |-> NoErr]
         ELSE [v |-> k1, err |-> ErrCannotSet]

pgBoolBytes(k) ==
    IF ~k.valid THEN [b |-> nullb, err |-> NoErr]
    ELSE [b |-> IF k.b THEN <<Ascii["t"]>> ELSE <<Ascii["f"]>>, err |-> NoErr]

(***************************************************************************)
(* pgText: Text, VarChar(n), Char(n)                                       *)
(***************************************************************************)
ErrCharFit == "cannot fit into Char Value"

newText(n, p) == [k |-> "pgText", s |-> <<>>, n |-> n, p |-> p, valid |-> FALSE]

\* strings.TrimRight(s, " ")
RECURSIVE TrimRight(_)
TrimRight(s) ==
    IF Len(s) > 0 /\ s[Len(s)] = SPACE
    THEN TrimRight(SubSeq(s, 1, Len(s) - 1))
    ELSE s

\* unicode/utf8: the length in bytes of the encoding that starts with byte
\* c (0 for a byte that starts none), and the range its second byte must
\* be in
runeSize(c) ==
    IF c < 128 THEN 1
    ELSE IF c >= 194 /\ c <= 223 THEN 2
    ELSE IF c >= 224 /\ c <= 239 THEN 3
    ELSE IF c >= 240 /\ c <= 244 THEN 4
    ELSE 0

acceptLo(c) == IF c = 224 THEN 160 ELSE IF c = 240 THEN 144 ELSE 128

acceptHi(c) == IF c = 237 THEN 159 ELSE IF c = 244 THEN 143 ELSE 191

\* the bytes the rune at the head of s takes: an invalid or cut-off
\* encoding counts as one rune of one byte
runeWidth(s) ==
    LET c == s[1]
        z == runeSize(c)
    IN  IF z <= 1 \/ Len(s) < z THEN 1
        ELSE IF s[2] < acceptLo(c) \/ s[2] > acceptHi(c) THEN 1
        ELSE IF \E i \in 3..z : s[i] < 128 \/ s[i] > 191 THEN 1
        ELSE z

\* utf8.RuneCountInString
RECURSIVE RuneCount(_)
RuneCount(s) ==
    IF s = <<>> THEN 0
    ELSE 1 + RuneCount(SubSeq(s, runeWidth(s) + 1, Len(s)))

\* fmt.Sprintf("%-Ns", s): s padded with spaces on the right to a width of
\* n, which fmt measures in runes
PadRight(s, n) ==
    IF RuneCount(s) >= n THEN s
    ELSE s \o [i \in 1..(n - RuneCount(s)) |-> SPACE]

\* pgText.Scan without the truncation to n bytes
pgTextScanWhole(k, src) ==
    IF src.t = "nil" THEN [v |-> [k EXCEPT !.valid = FALSE], err |-> NoErr]
    ELSE IF src.t \notin {"bytes", "string"}
    THEN [v |-> [k EXCEPT !.valid = TRUE], err |-> ErrCannotSet]
    ELSE [v |-> [k EXCEPT !.valid = TRUE, !.s = src.b], err |-> NoErr]

pgTextScan(k, src) ==
    IF src.t = "nil" THEN [v |-> [k EXCEPT !.valid = FALSE], err |-> NoErr]
    ELSE LET k1 == [k EXCEPT !.valid = TRUE] IN
         IF src.t \notin {"bytes", "string"}
         THEN [v |-> k1, err |-> ErrCannotSet]
         ELSE IF k.p THEN
             LET t == TrimRight(src.b) IN
             IF Len(t) > k.n THEN [v |-> [k1 EXCEPT !.s = t], err |-> ErrCharFit]
             ELSE IF Len(t) < k.n
                  THEN [v |-> [k1 EXCEPT !.s = PadRight(t, k.n)], err |-> NoErr]
                  ELSE [v |-> [k1 EXCEPT !.s = t], err |-> NoErr]
         ELSE IF k.n > 0 /\ Len(src.b) > k.n
              THEN [v |-> [k1 EXCEPT !.s = Slice(src.b, 0, k.n)], err |-> NoErr]
              ELSE [v |-> [k1 EXCEPT !.s = src.b], err |-> NoErr]

pgTextBytes(k) ==
    IF ~k.valid THEN [b |-> nullb, err |-> NoErr]
    ELSE [b |-> k.s, err |-> NoErr]

(***************************************************************************)
(* pgBytea                                                                 *)
(***************************************************************************)
newBytea == [k |-> "pgBytea", b |-> <<>>, valid |-> FALSE]

pgByteaScan(k, src) ==
    IF src.t = "nil" THEN [v |-> [k EXCEPT !.valid = FALSE], err |-> NoErr]
    ELSE LET k1 == [k EXCEPT !.valid = TRUE] IN
         IF src.t = "bytes" THEN [v |-> [k1 EXCEPT !.b = src.b], err |-> NoErr]
         ELSE [v |-> k1, err |-> ErrCannotSet]

pgByteaBytes(k) ==
    IF ~k.valid THEN [b |-> nullb, err |-> NoErr]
    ELSE [b |-> <<BACKSLASH, Ascii["x"]>> \o hexEncode(k.b), err |-> NoErr]

(***************************************************************************)
(* pgFloat.  TLC has no floating point: a float is a decimal floating      *)
(* point number [neg, digs, exp] of value 0.d1d2... * 10^exp (digs without *)
(* leading or trailing zeros, <<>> for zero), and the binary precisions    *)
(* of float32 and float64 are taken as 7 and 15 significant decimal        *)
(* digits.  Texts with an exponent, "inf" or "nan" are not in the inputs.  *)
(***************************************************************************)
Sig(bs) == IF bs = 32 THEN 7 ELSE 15

FZero == [neg |-> FALSE, digs |-> <<>>, exp |-> 0]

RECURSIVE stripLeft(_)
stripLeft(d) == IF Len(d) > 0 /\ d[1] = 0 THEN stripLeft(Tail(d)) ELSE d

RECURSIVE stripRight(_)
stripRight(d) ==
    IF Len(d) > 0 /\ d[Len(d)] = 0
    THEN stripRight(SubSeq(d, 1, Len(d) - 1)) ELSE d

\* d + 1 on a digit string; a carry out of the first digit lengthens it
RECURSIVE incDigits(_)
incDigits(d) ==
    IF d = <<>> THEN <<1>>
    ELSE IF d[Len(d)] < 9
         THEN SubSeq(d, 1, Len(d) - 1) \o <<d[Len(d)] + 1>>
         ELSE incDigits(SubSeq(d, 1, Len(d) - 1)) \o <<0>>

\* round x to its first n digits (n may be 0 or negative), half to even
roundDigits(x, n) ==
    IF n >= Len(x.digs) THEN x
    ELSE IF n < 0 THEN FZero
    ELSE LET keep == SubSeq(x.digs, 1, n)
             nxt == x.digs[n + 1]
             exact == Len(x.digs) = n + 1
             odd == n > 0 /\ keep[n] % 2 = 1
             up == nxt > 5 \/ (nxt = 5 /\ (~exact \/ odd))
             r == IF up THEN incDigits(keep) ELSE keep
             carry == Len(r) > n
             d == stripRight(r)
         IN  IF d = <<>> THEN FZero
             ELSE [neg |-> x.neg, digs |-> d,
                   exp |-> IF carry THEN x.exp + 1 ELSE x.exp]

\* math.MaxFloat32 = 3.40282346638528859811704183484516925440e+38
MaxFloat32 ==
    [neg |-> FALSE, digs |-> <<3, 4, 0, 2, 8, 2, 3, 4, 6, 6, 3, 8, 5, 2, 8, 8, 6>>,
     exp |-> 39]

\* x > y for y > 0
FloatGreater(x, y) ==
    /\ ~x.neg
    /\ x.digs # <<>>
    /\ \/ x.exp > y.exp
       \/ /\ x.exp = y.exp
          /\ \E i \in 1..Len(x.digs) :
               /\ \A j \in 1..(i - 1) : j <= Len(y.digs) /\ x.digs[j] = y.digs[j]
               /\ (i > Len(y.digs) \/ x.digs[i] > y.digs[i])

\* strconv.ParseFloat(s, bitSize) on [+-]digits[.digits]
ParseFloat(s, bs) ==
    LET signed == Len(s) > 0 /\ (s[1] = Ascii["+"] \/ s[1] = Ascii["-"])
        neg == Len(s) > 0 /\ s[1] = Ascii["-"]
        body == IF signed THEN Tail(s) ELSE s
        dots == {i \in 1..Len(body) : body[i] = Ascii["."]}
        dot == IF dots = {} THEN Len(body) + 1
               ELSE CHOOSE i \in dots : \A j \in dots : i <= j
        ip == SubSeq(body, 1, dot - 1)
        fp == SubSeq(body, dot + 1, Len(body))
        all == ip \o fp
    IN  IF all = <<>> \/ \E i \in 1..Len(all) : ~IsDigit(all[i])
        THEN [f |-> FZero, err |-> ErrSyntax]
        ELSE LET ds == [i \in 1..Len(all) |-> all[i] - 48]
                 lead == stripLeft(ds)
                 d == stripRight(lead)
             IN  IF d = <<>> THEN [f |-> FZero, err |-> NoErr]
                 ELSE [f |-> roundDigits([neg |-> neg, digs |-> d,
                                          exp |-> Len(ip) - (Len(ds) - Len(lead))],
                                         Sig(bs)),
                       err |-> NoErr]

Zeros(n) == [i \in 1..n |-> 48]

DigitBytes(d) == [i \in 1..Len(d) |-> 48 + d[i]]

\* the decimal text of x: integer part, and a fraction when there is one
formatFixed(x, minFrac) ==
    LET sign == IF x.neg THEN <<Ascii["-"]>> ELSE <<>>
        n == Len(x.digs)
        ipart == IF x.exp <= 0 THEN <<48>>
                 ELSE IF x.exp >= n THEN DigitBytes(x.digs) \o Zeros(x.exp - n)
                 ELSE DigitBytes(SubSeq(x.digs, 1, x.exp))
        fpart == IF x.exp <= 0 THEN Zeros(IF n = 0 THEN 0 ELSE -x.exp)
                                        \o DigitBytes(x.digs)
                 ELSE IF x.exp >= n THEN <<>>
                 ELSE DigitBytes(SubSeq(x.digs, x.exp + 1, n))
        frac == IF Len(fpart) < minFrac
                THEN fpart \o Zeros(minFrac - Len(fpart)) ELSE fpart
    IN  sign \o ipart \o (IF frac = <<>> THEN <<>> ELSE <<Ascii["."]>> \o frac)

\* strconv.FormatFloat(x, 'f', prec, bitSize); prec = -1: the fewest digits
FormatFloat(x, prec, bs) ==
    LET r == roundDigits(x, Sig(bs)) IN
    IF prec < 0 THEN formatFixed(r, 0)
    ELSE formatFixed(roundDigits(r, r.exp + prec), prec)

ErrFloatFit == "cannot fit float64 into REAL Value"

newfloat(bs) == [k |-> "pgFloat", n |-> FZero, bs |-> bs, valid |-> FALSE]

pgFloatScan(k, src) ==
    IF src.t = "nil" THEN [v |-> [k EXCEPT !.valid = FALSE], err |-> NoErr]
    ELSE LET k1 == [k EXCEPT !.valid = TRUE] IN
         IF src.t = "float64" THEN
             IF k.bs = 32 /\ FloatGreater(src.f, MaxFloat32)
             THEN [v |-> k1, err |-> ErrFloatFit]
             ELSE [v |-> [k1 EXCEPT !.n = src.f], err |-> NoErr]
         ELSE IF src.t = "float32"
         THEN [v |-> [k1 EXCEPT !.n = src.f], err |-> NoErr]
         ELSE IF src.t \in {"bytes", "string"} THEN
             LET f == ParseFloat(src.b, k.bs) IN
             [v |-> [k1 EXCEPT !.n = f.f], err |-> f.err]
         ELSE [v |-> k1, err |-> ErrCannotSet]

pgFloatBytes(k) ==
    IF ~k.valid THEN [b |-> nullb, err |-> NoErr]
    ELSE [b |-> FormatFloat(k.n, -1, 32), err |-> NoErr]

pgNumericScan(k, src) ==
    IF src.t = "nil" THEN [v |-> [k EXCEPT !.valid = FALSE], err |-> NoErr]
    ELSE LET k1 == [k EXCEPT !.valid = TRUE] IN
         IF src.t \in {"float32", "float64"}
         THEN [v |-> [k1 EXCEPT !.s = FormatFloat(src.f, k.scale, 64)],
               err |-> NoErr]
         ELSE IF src.t \in {"bytes", "string"}
         THEN [v |-> [k1 EXCEPT !.s = src.b], err |-> NoErr]
         ELSE [v |-> k1, err |-> ErrCannotSet]

(***************************************************************************)
(* pgTimestamp.  A time.Time is its civil fields, the digits of its        *)
(* fractional second (no trailing zeros) and its zone offset in minutes.   *)
(***************************************************************************)
\* time.Time{}
TimeZero ==
    [Y |-> 1, M |-> 1, D |-> 1, h |-> 0, m |-> 0, s |-> 0, ns |-> <<>>, off |-> 0]

\* what time.Parse starts from: omitted elements are zero, or one
TimeBlank ==
    [Y |-> 0, M |-> 1, D |-> 1, h |-> 0, m |-> 0, s |-> 0, ns |-> <<>>, off |-> 0]

Std(name) == [std |-> name, c |-> 0]

Lit(ch) == [std |-> "lit", c |-> Ascii[ch]]

LayoutDate == <<Std("2006"), Lit("-"), Std("01"), Lit("-"), Std("02")>>

LayoutHM == <<Std("15"), Lit(":"), Std("04")>>

LayoutHMS == LayoutHM \o <<Lit(":"), Std("05")>>

timeFormats ==
    << LayoutDate \o <<Lit(" ")>> \o LayoutHMS \o <<Std("-07")>>,
       LayoutDate \o <<Lit(" ")>> \o LayoutHMS,
       LayoutDate \o <<Lit(" ")>> \o LayoutHM,
       LayoutHMS \o <<Std("-07")>>,
       LayoutHMS,
       LayoutDate >>

\* time.RFC3339Nano is "2006-01-02T15:04:05.999999999Z07:00"
isLeap(y) == y % 4 = 0 /\ (y % 100 # 0 \/ y % 400 = 0)

daysIn(m, y) ==
    IF m = 2 THEN (IF isLeap(y) THEN 29 ELSE 28)
    ELSE IF m \in {4, 6, 9, 11} THEN 30 ELSE 31

DigAt(v, i) == i <= Len(v) /\ IsDigit(v[i])

Num2(v) == (v[1] - 48) * 10 + (v[2] - 48)

Drop(v, n) == SubSeq(v, n + 1, Len(v))

\* the digits of a fractional second: at most nine, trailing zeros dropped
RECURSIVE digitRun(_, _)
digitRun(v, i) == IF DigAt(v, i) THEN digitRun(v, i + 1) ELSE i - 1

parseNanoseconds(v, n) ==
    stripRight([i \in 1..(IF n - 1 > 9 THEN 9 ELSE n - 1) |-> v[i + 1] - 48])

\* one element of a layout applied to the rest of the value
parseElem(e, st) ==
    LET v == st.value
        bad == [st EXCEPT !.ok = FALSE]
    IN  CASE e.std = "lit" ->
               IF Len(v) >= 1 /\ v[1] = e.c THEN [st EXCEPT !.value = Tail(v)]
               ELSE bad
          [] e.std = "2006" ->
               IF Len(v) >= 4 /\ \A i \in 1..4 : IsDigit(v[i])
               THEN [st EXCEPT !.value = Drop(v, 4),
                               !.t.Y = Num2(v) * 100 + Num2(Drop(v, 2))]
               ELSE bad
          [] e.std = "01" ->
               IF DigAt(v, 1) /\ DigAt(v, 2) /\ Num2(v) >= 1 /\ Num2(v) <= 12
               THEN [st EXCEPT !.value = Drop(v, 2), !.t.M = Num2(v)]
               ELSE bad
          [] e.std = "02" ->
               IF DigAt(v, 1) /\ DigAt(v, 2)
               THEN [st EXCEPT !.value = Drop(v, 2), !.t.D = Num2(v)]
               ELSE bad
          [] e.std = "15" ->
               IF ~DigAt(v, 1) THEN bad
               ELSE IF ~DigAt(v, 2)
               THEN [st EXCEPT !.value = Drop(v, 1), !.t.h = v[1] - 48]
               ELSE IF Num2(v) >= 24 THEN bad
               ELSE [st EXCEPT !.value = Drop(v, 2), !.t.h = Num2(v)]
          [] e.std = "04" ->
               IF DigAt(v, 1) /\ DigAt(v, 2) /\ Num2(v) < 60
               THEN [st EXCEPT !.value = Drop(v, 2), !.t.m = Num2(v)]
               ELSE bad
          [] e.std = "05" ->
               IF DigAt(v, 1) /\ DigAt(v, 2) /\ Num2(v) < 60
               THEN LET r == Drop(v, 2) IN
                    IF Len(r) >= 2 /\ r[1] \in {Ascii["."], Ascii[","]}
                       /\ DigAt(r, 2)
                    THEN LET n == digitRun(r, 2) IN
                         [st EXCEPT !.value = Drop(r, n), !.t.s = Num2(v),
                                    !.t.ns = parseNanoseconds(r, n)]
                    ELSE [st EXCEPT !.value = r, !.t.s = Num2(v)]
               ELSE bad
          [] e.std = "-07" ->
               IF Len(v) >= 3 /\ v[1] \in {Ascii["+"], Ascii["-"]}
                  /\ DigAt(v, 2) /\ DigAt(v, 3) /\ Num2(Tail(v)) <= 24
               THEN [st EXCEPT !.value = Drop(v, 3),
                               !.t.off = IF v[1] = Ascii["-"]
                                         THEN -(Num2(Tail(v)) * 60)
                                         ELSE Num2(Tail(v)) * 60]
               ELSE bad

RECURSIVE parseLayout(_, _)
parseLayout(layout, st) ==
    IF ~st.ok \/ layout = <<>> THEN st
    ELSE parseLayout(Tail(layout), parseElem(layout[1], st))

\* time.Parse(layout, value): [t, ok]; t is time.Time{} on failure
timeParse(layout, value) ==
    LET st == parseLayout(layout, [value |-> value, t |-> TimeBlank, ok |-> TRUE])
    IN  IF st.ok /\ st.value = <<>> /\ st.t.D >= 1
           /\ st.t.D <= daysIn(st.t.M, st.t.Y)
        THEN [t |-> st.t, ok |-> TRUE]
        ELSE [t |-> TimeZero, ok |-> FALSE]

Digits2(n) == <<48 + ((n \div 10) % 10), 48 + (n % 10)>>

\* t.Format(time.RFC3339Nano)
timeFormat(t) ==
    LET a == IF t.off < 0 THEN -t.off ELSE t.off IN
    Digits2(t.Y \div 100) \o Digits2(t.Y % 100) \o <<Ascii["-"]>>
        \o Digits2(t.M) \o <<Ascii["-"]>> \o Digits2(t.D) \o <<Ascii["T"]>>
        \o Digits2(t.h) \o <<Ascii[":"]>> \o Digits2(t.m) \o <<Ascii[":"]>>
        \o Digits2(t.s)
        \o (IF t.ns = <<>> THEN <<>> ELSE <<Ascii["."]>> \o DigitBytes(t.ns))
        \o (IF t.off = 0 THEN <<Ascii["Z"]>>
            ELSE <<IF t.off < 0 THEN Ascii["-"] ELSE Ascii["+"]>>
                     \o Digits2(a \div 60) \o <<Ascii[":"]>> \o Digits2(a % 60))

ErrParseTime == "could not parse time string"

\* the loop of parseTime over timeFormats from format i on
RECURSIVE parseTimeFrom(_, _)
parseTimeFrom(s, i) ==
    IF i > Len(timeFormats) THEN [t |-> TimeZero, err |-> ErrParseTime]
    ELSE LET r == timeParse(timeFormats[i], s) IN
         IF r.ok THEN [t |-> r.t, err |-> NoErr]
         ELSE parseTimeFrom(s, i + 1)

\* parseTime(s, t): [t, err, set]; set is FALSE when *t was never assigned
parseTime(s) ==
    IF Len(s) < 2 THEN [t |-> TimeZero, err |-> PanicIndex, set |-> FALSE]
    ELSE LET s1 == IF At(s, Len(s) - 2) = Ascii["."] THEN s \o <<48>> ELSE s
             r == parseTimeFrom(s1, 1)
         IN  [t |-> r.t, err |-> r.err, set |-> TRUE]

newTimestamp == [k |-> "pgTimestamp", t |-> TimeZero, tz |-> <<>>, valid |-> FALSE]

pgTimestampScan(k, src) ==
    IF src.t = "nil" THEN [v |-> [k EXCEPT !.valid = FALSE], err |-> NoErr]
    ELSE LET k1 == [k EXCEPT !.valid = TRUE] IN
         IF src.t = "time" THEN [v |-> [k1 EXCEPT !.t = src.tm], err |-> NoErr]
         ELSE IF src.t \in {"bytes", "string"} THEN
             LET r == parseTime(src.b) IN
             [v |-> IF r.set THEN [k1 EXCEPT !.t = r.t] ELSE k1, err |-> r.err]
         ELSE [v |-> k1, err |-> ErrCannotSet]

pgTimestampBytes(k) ==
    IF ~k.valid THEN [b |-> nullb, err |-> NoErr]
    ELSE [b |-> timeFormat(k.t), err |-> NoErr]

(***************************************************************************)
(* HStore: parseHStore and pgHStore.  A Go map is a function from its keys; *)
(* ranging over it visits the keys in any order.                           *)
(***************************************************************************)
ErrHStoreSet == "cannot set HSTORE value"

EmptyMap == [x \in {} |-> <<>>]

\* m[k] = v of Go
MapPut(m, k, v) == [x \in DOMAIN m \cup {k} |-> IF x = k THEN v ELSE m[x]]

\* the local variables of parseHStore before its loop; panic is set by an
\* index past the end of s
hsInit ==
    [m |-> EmptyMap, st |-> 0, ka |-> -1, kz |-> -1, va |-> -1, vz |-> -1,
     i |-> 0, panic |-> FALSE]

\* s[i] == c with the bounds check of Go: "out" for an index past the end
hsByteIs(s, i, c) ==
    IF i >= Len(s) THEN "out" ELSE IF At(s, i) = c THEN "yes" ELSE "no"

\* b == 'N' && s[i+1] == 'U' && s[i+2] == 'L' && s[i+3] == 'L', b == 'N' known
hsNullAt(s, i) ==
    IF hsByteIs(s, i + 1, Ascii["U"]) # "yes"
    THEN hsByteIs(s, i + 1, Ascii["U"])
    ELSE IF hsByteIs(s, i + 2, Ascii["L"]) # "yes"
         THEN hsByteIs(s, i + 2, Ascii["L"])
         ELSE hsByteIs(s, i + 3, Ascii["L"])

\* the switch of one loop iteration of parseHStore, on byte st.i
hsSwitch(s, st) ==
    LET i == st.i
        b == At(s, i)
    IN  CASE b = BACKSLASH -> [st EXCEPT !.i = i + 1]
          [] b # BACKSLASH /\ st.st = 0 ->
               IF b = QUOTE THEN [st EXCEPT !.ka = i + 1, !.st = 1] ELSE st
          [] b # BACKSLASH /\ st.st = 1 ->
               IF b = QUOTE THEN [st EXCEPT !.kz = i - 1, !.st = 2] ELSE st
          [] b # BACKSLASH /\ st.st = 2 ->
               IF b = Ascii["N"] /\ hsNullAt(s, i) = "out"
               THEN [st EXCEPT !.panic = TRUE]
               ELSE IF b = Ascii["N"] /\ hsNullAt(s, i) = "yes"
               THEN [st EXCEPT !.va = i, !.vz = i + 3, !.st = 0]
               ELSE IF b = QUOTE THEN [st EXCEPT !.va = i + 1, !.st = 3]
               ELSE st
          [] b # BACKSLASH /\ st.st = 3 ->
               IF b = QUOTE THEN [st EXCEPT !.vz = i - 1, !.st = 0] ELSE st

\* the two bytes.Replace calls on a key or a value
hsUnescape(x) ==
    Replace(Replace(x, <<BACKSLASH, BACKSLASH>>, <<BACKSLASH>>),
            <<BACKSLASH, QUOTE>>, <<QUOTE>>)

\* the rest of the iteration: a complete pair is stored unless its value
\* reads NULL, and the loop's i++
hsPair(s, st) ==
    IF st.panic THEN st
    ELSE IF st.kz # -1 /\ st.vz # -1
    THEN [st EXCEPT
            !.m = IF Slice(s, st.va, st.vz + 1) = nullb THEN @
                  ELSE MapPut(@, hsUnescape(Slice(s, st.ka, st.kz + 1)),
                                 hsUnescape(Slice(s, st.va, st.vz + 1))),
            !.ka = -1, !.kz = -1, !.va = -1, !.vz = -1, !.i = @ + 1]
    ELSE [st EXCEPT !.i = @ + 1]

RECURSIVE hsLoop(_, _)
hsLoop(s, st) ==
    IF st.panic \/ st.i >= Len(s) THEN st
    ELSE hsLoop(s, hsPair(s, hsSwitch(s, st)))

hsReturn(st) ==
    [m |-> st.m, err |-> IF st.panic THEN PanicIndex ELSE NoErr]

\* parseHStore: [m, err]; the only failure is the index panic
parseHStore(s) == hsReturn(hsLoop(s, hsInit))

newHStore == [k |-> "pgHStore", m |-> EmptyMap, valid |-> FALSE]

\* the loop of pgHStore.Scan: Text(val) of every pair, which refuses nothing
hsTexts(keyvals) ==
    [key \in DOMAIN keyvals |->
        pgTextScan(newText(0, FALSE), Str(keyvals[key])).v]

hsScanParsed(k, r) ==
    IF r.err # NoErr THEN [v |-> k, err |-> r.err]
    ELSE [v |-> [k EXCEPT !.m = hsTexts(r.m)], err |-> NoErr]

pgHStoreScan(k, src) ==
    IF src.t = "nil"
    THEN [v |-> [k EXCEPT !.m = EmptyMap, !.valid = FALSE], err |-> NoErr]
    ELSE IF src.t = "bytes"
    THEN hsScanParsed([k EXCEPT !.m = EmptyMap, !.valid = TRUE],
                      parseHStore(src.b))
    ELSE IF src.t = "map"
    THEN [v |-> [k EXCEPT !.m = hsTexts(src.m), !.valid = TRUE],
          err |-> NoErr]
    ELSE [v |-> [k EXCEPT !.m = EmptyMap, !.valid = TRUE],
          err |-> ErrHStoreSet]

(***************************************************************************)
(* Valstructors and containers.  A Valstructor is its description:         *)
(*   [c |-> "SmallInt"], "Integer", "BigInt", "Real", "Double", "Bool",    *)
(*   "Text", "Bytea", "Timestamp"; [c |-> "VarChar", n |-> n], "Char";     *)
(*   [c |-> "Numeric", prec, scale]; [c |-> "Enum", labels];               *)
(*   [c |-> "Array", el |-> d]; [c |-> "Row", ks |-> <<d ...>>];           *)
(*   [c |-> "Record", cols |-> <<[name, k] ...>>]                          *)
(***************************************************************************)
K(c) == [c |-> c]

ArrayOf(el) == [c |-> "Array", el |-> el]

RowOf(ks) == [c |-> "Row", ks |-> ks]

Col(name, k) == [name |-> name, k |-> k]

RecordOf(cols) == [c |-> "Record", cols |-> cols]

ErrSrcToBytes == "Cannot parse into Value expected []byte or string"
ErrArityVals == "Number of input values does not match number of Row columns"
ErrArityCols == "Number of input columns does not match number of Row columns"
ErrAppendRow == "Cannot append to Row"
ErrAppendRecord == "Cannot append more Values to record"
ErrNoColumn == "No column"

srcToBytes(src) ==
    IF src.t \in {"string", "bytes"} THEN [b |-> src.b, err |-> NoErr]
    ELSE [b |-> <<>>, err |-> ErrSrcToBytes]

RECURSIVE Blank(_), Scan(_, _), scanEach(_, _, _), appendEach(_, _, _)
RECURSIVE arrayAppend(_, _), scanEachStep(_, _, _, _), appendEachStep(_, _, _)

\* the value a Valstructor returns for nil data: what it allocates, which
\* Scan(nil) leaves NULL; a Row or Record holds vk(nil) of each column
Blank(d) ==
    CASE d.c = "SmallInt" -> newInt(16)
      [] d.c = "Integer" -> newInt(32)
      [] d.c = "BigInt" -> newInt(64)
      [] d.c = "Real" -> newfloat(32)
      [] d.c = "Double" -> newfloat(64)
      [] d.c = "Bool" -> newBool
      [] d.c = "Text" -> newText(0, FALSE)
      [] d.c = "VarChar" -> newText(d.n, FALSE)
      [] d.c = "Char" -> newText(d.n, TRUE)
      [] d.c = "Bytea" -> newBytea
      [] d.c = "Timestamp" -> newTimestamp
      [] d.c = "Numeric" -> newNumeric(d.prec, d.scale)
      [] d.c = "Enum" -> newEnum(d.labels)
      [] d.c = "Array" ->
           [k |-> "pgArray", vs |-> <<>>, el |-> d.el, valid |-> FALSE]
      [] d.c = "Row" ->
           [k |-> "pgRow",
            vs |-> [i \in 1..Len(d.ks) |-> Blank(d.ks[i])],
            valid |-> FALSE]
      [] d.c = "Record" ->
           [k |-> "pgRecord",
            vs |-> [i \in 1..Len(d.cols) |-> Blank(d.cols[i].k)],
            cs |-> d.cols, valid |-> FALSE]
      [] d.c = "HStore" -> newHStore

\* the sources a container decodes its children from: the elements of a
\* native list, or the parts split finds in a literal
AsBytes(parts) == [i \in 1..Len(parts) |-> Bytes(parts[i])]

splitSources(sp, arity) ==
    [srcs |-> AsBytes(sp.parts), err |-> sp.err, arity |-> arity]

childSources(src) ==
    IF src.t = "list"
    THEN [srcs |-> src.xs, err |-> NoErr, arity |-> ErrArityVals]
    ELSE IF srcToBytes(src).err # NoErr
    THEN [srcs |-> <<>>, err |-> srcToBytes(src).err, arity |-> ErrArityCols]
    ELSE splitSources(split(srcToBytes(src).b), ErrArityCols)

\* the loop of rowScanner going on to the next slot after a failed Scan
scanEachOn(dests, srcs, i, r) ==
    IF r.err # NoErr
    THEN [vs |-> scanEach([dests EXCEPT ![i] = r.v], srcs, i + 1).vs,
          err |-> r.err]
    ELSE scanEach([dests EXCEPT ![i] = r.v], srcs, i + 1)

\* the loops of rowScanner: dests[i].Scan(srcs[i]) until one fails
scanEachStep(dests, srcs, i, r) ==
    IF r.err # NoErr THEN [vs |-> [dests EXCEPT ![i] = r.v], err |-> r.err]
    ELSE scanEach([dests EXCEPT ![i] = r.v], srcs, i + 1)

scanEach(dests, srcs, i) ==
    IF i > Len(dests) THEN [vs |-> dests, err |-> NoErr]
    ELSE scanEachStep(dests, srcs, i, Scan(dests[i], srcs[i]))

\* rowScanner refusing only too few sources
rowScannerLoose(cs, dests) ==
    IF cs.err # NoErr THEN [vs |-> dests, err |-> cs.err]
    ELSE IF Len(cs.srcs) < Len(dests) THEN [vs |-> dests, err |-> cs.arity]
    ELSE scanEach(dests, cs.srcs, 1)

\* rowScanner once its sources are known: the length check, then the loop
rowScannerOn(cs, dests) ==
    IF cs.err # NoErr THEN [vs |-> dests, err |-> cs.err]
    ELSE IF Len(cs.srcs) # Len(dests) THEN [vs |-> dests, err |-> cs.arity]
    ELSE scanEach(dests, cs.srcs, 1)

rowScanner(src, dests) == rowScannerOn(childSources(src), dests)

rowScanReturn(k, r) ==
    [v |-> [k EXCEPT !.valid = TRUE, !.vs = r.vs], err |-> r.err]

\* pgRow.Scan and pgRecord.Scan
rowScan(k, src) ==
    IF src.t = "nil" THEN [v |-> [k EXCEPT !.valid = FALSE], err |-> NoErr]
    ELSE rowScanReturn(k, rowScanner(src, k.vs))

\* pgArray.Append keeping an element whatever its Scan returned
arrayAppendAny(k, r) ==
    [v |-> [k EXCEPT !.vs = Append(@, r.v), !.valid = TRUE], err |-> NoErr]

\* pgArray.Append once the fresh element has been scanned
arrayAppendNew(k, r) ==
    IF r.err # NoErr THEN [v |-> k, err |-> r.err]
    ELSE [v |-> [k EXCEPT !.vs = Append(@, r.v), !.valid = TRUE], err |-> NoErr]

\* pgArray.Append marking the array non-NULL before the element is scanned
arrayAppendEager(k, src) ==
    IF src.t = "Value"
    THEN [v |-> [k EXCEPT !.vs = Append(@, src.v), !.valid = TRUE],
          err |-> NoErr]
    ELSE arrayAppendNew([k EXCEPT !.valid = TRUE], Scan(Blank(k.el), src))

\* pgArray.Append
arrayAppend(k, src) ==
    IF src.t = "Value"
    THEN [v |-> [k EXCEPT !.vs = Append(@, src.v), !.valid = TRUE],
          err |-> NoErr]
    ELSE arrayAppendNew(k, Scan(Blank(k.el), src))

\* the loops of pgArray.Scan: k.Append(srcs[i]) until one fails
appendEachStep(srcs, i, r) ==
    IF r.err # NoErr THEN r ELSE appendEach(r.v, srcs, i + 1)

appendEach(k, srcs, i) ==
    IF i > Len(srcs) THEN [v |-> k, err |-> NoErr]
    ELSE appendEachStep(srcs, i, arrayAppend(k, srcs[i]))

\* pgArray.Scan once its sources are known
pgArrayScanOn(cs, k1) ==
    IF cs.err # NoErr THEN [v |-> k1, err |-> cs.err]
    ELSE appendEach(k1, cs.srcs, 1)

pgArrayScan(k, src) ==
    IF src.t = "nil"
    THEN [v |-> [k EXCEPT !.vs = <<>>, !.valid = FALSE], err |-> NoErr]
    ELSE pgArrayScanOn(childSources(src), [k EXCEPT !.vs = <<>>, !.valid = TRUE])

\* Value.Scan: [v, err], v the receiver after the call
Scan(v, src) ==
    CASE v.k = "pgInteger" -> pgIntegerScan(v, src)
      [] v.k = "pgNumeric" -> pgNumericScan(v, src)
      [] v.k = "pgFloat" -> pgFloatScan(v, src)
      [] v.k = "pgBool" -> pgBoolScan(v, src)
      [] v.k = "pgText" -> pgTextScan(v, src)
      [] v.k = "pgBytea" -> pgByteaScan(v, src)
      [] v.k = "pgTimestamp" -> pgTimestampScan(v, src)
      [] v.k = "pgEnum" -> pgEnumScan(v, src)
      [] v.k = "pgArray" -> pgArrayScan(v, src)
      [] v.k \in {"pgRow", "pgRecord"} -> rowScan(v, src)
      [] v.k = "pgHStore" -> pgHStoreScan(v, src)

\* a Valstructor applied to data: [v, err]; VarChar and Char return a nil
\* Value with their error
newReturn(d, r) ==
    [v |-> r.v, err |-> r.err,
     isnil |-> r.err # NoErr /\ d.c \in {"VarChar", "Char"}]

New(d, data) == newReturn(d, Scan(Blank(d), data))

IsNull(v) == ~v.valid

\* pgRow.Append and pgRecord.Append with one child more, as pgArray.Append
rowAppendGrow(k, src) ==
    [v |-> [k EXCEPT !.vs = Append(@, Blank(K("Text")))], err |-> NoErr]

\* pgRow.Append and pgRecord.Append: refused, the receiver untouched
rowAppend(k, src) ==
    [v |-> k, err |-> IF k.k = "pgRow" THEN ErrAppendRow ELSE ErrAppendRecord]

\* pgRecord.ValueBy ranging over the columns from the last to the first
ValueByLast(k, name) ==
    IF \E i \in 1..Len(k.cs) : k.cs[i].name = name
    THEN CHOOSE i \in 1..Len(k.cs) :
             /\ k.cs[i].name = name
             /\ \A j \in (i + 1)..Len(k.cs) : k.cs[j].name # name
    ELSE 0

\* pgRecord.ValueBy: the index of the first column of that name, 0 for nil
ValueBy(k, name) ==
    IF \E i \in 1..Len(k.cs) : k.cs[i].name = name
    THEN CHOOSE i \in 1..Len(k.cs) :
             /\ k.cs[i].name = name
             /\ \A j \in 1..(i - 1) : k.cs[j].name # name
    ELSE 0

\* pgRecord.Set once the column is found: v.Scan(src) on the child
recordSetAt(k, i, r) == [v |-> [k EXCEPT !.vs[i] = r.v], err |-> r.err]

\* pgRecord.Set
recordSet(k, name, src) ==
    IF ValueBy(k, name) = 0 THEN [v |-> k, err |-> ErrNoColumn]
    ELSE recordSetAt(k, ValueBy(k, name),
                     Scan(k.vs[ValueBy(k, name)], src))

\* no bytes() call made yet
NoBytes == [b |-> <<>>, err |-> NoErr]

(***************************************************************************)
(* bytes(): the literal of a Value                                         *)
(***************************************************************************)
RECURSIVE bytesOf(_), joinChildren(_, _, _)

BareInRow == {"pgNumeric", "pgInteger", "pgFloat", "pgBool"}

BareInArray == BareInRow \cup {"pgArray", "pgTimestamp"}

\* the loop of rowBytes (t = 2) and of pgArray.bytes (t = 1) from child i
joinChildren(vs, i, t) ==
    IF i > Len(vs) THEN <<>>
    ELSE LET cb == bytesOf(vs[i]).b
             bare == vs[i].k \in (IF t = 1 THEN BareInArray ELSE BareInRow)
         IN  (IF bare THEN cb ELSE <<QUOTE>> \o escape(cb, t) \o <<QUOTE>>)
                 \o (IF i # Len(vs) THEN <<COMMA>> ELSE <<>>)
                 \o joinChildren(vs, i + 1, t)

rowBytes(valid, vs) ==
    IF ~valid THEN [b |-> nullb, err |-> NoErr]
    ELSE [b |-> <<LPAREN>> \o joinChildren(vs, 1, 2) \o <<RPAREN>>,
          err |-> NoErr]

pgArrayBytes(k) ==
    IF ~k.valid THEN [b |-> nullb, err |-> NoErr]
    ELSE [b |-> <<LBRACE>> \o joinChildren(k.vs, 1, 1) \o <<RBRACE>>,
          err |-> NoErr]

bytesOf(v) ==
    CASE v.k = "pgInteger" -> pgIntegerBytes(v)
      [] v.k = "pgNumeric" -> pgNumericBytes(v)
      [] v.k = "pgFloat" -> pgFloatBytes(v)
      [] v.k = "pgBool" -> pgBoolBytes(v)
      [] v.k = "pgText" -> pgTextBytes(v)
      [] v.k = "pgBytea" -> pgByteaBytes(v)
      [] v.k = "pgTimestamp" -> pgTimestampBytes(v)
      [] v.k = "pgEnum" -> pgEnumBytes(v)
      [] v.k = "pgArray" -> pgArrayBytes(v)
      [] v.k \in {"pgRow", "pgRecord"} -> rowBytes(v.valid, v.vs)

(***************************************************************************)
(* bytes() of pgHStore, and Val()                                          *)
(***************************************************************************)
\* the orders in which a range over a map of these keys can visit them
Orders(S) ==
    {o \in [1..Cardinality(S) -> S] :
        \A i, j \in 1..Cardinality(S) : i # j => o[i] # o[j]}

\* fmt.Sprintf(`"%s" => "%s"`, key, val), val printed by pgText.String
hsEntry(key, child) ==
    <<QUOTE>> \o key \o <<QUOTE>> \o B(<<" ", "=", ">", " ">>) \o <<QUOTE>>
        \o (IF child.valid THEN child.s ELSE <<>>) \o <<QUOTE>>

RECURSIVE hsJoin(_, _, _)
hsJoin(m, o, i) ==
    IF i > Len(o) THEN <<>>
    ELSE hsEntry(o[i], m[o[i]]) \o (IF i # Len(o) THEN <<COMMA>> ELSE <<>>)
             \o hsJoin(m, o, i + 1)

\* pgHStore.bytes: every literal it can return, one per order of the range;
\* it does not look at valid
pgHStoreBytes(k) ==
    {[b |-> hsJoin(k.m, o, 1), err |-> NoErr] : o \in Orders(DOMAIN k.m)}

\* pgHStore.Value
pgHStoreValue(k) ==
    IF ~k.valid THEN {[b |-> nullb, err |-> NoErr]} ELSE pgHStoreBytes(k)

\* bytes() of any Value: the set of literals it can return
bytesAny(v) == IF v.k = "pgHStore" THEN pgHStoreBytes(v) ELSE {bytesOf(v)}

\* Val(): nil for NULL, else the payload
RECURSIVE ValOf(_)
ValOf(v) ==
    IF ~v.valid THEN Nil
    ELSE CASE v.k \in {"pgInteger", "pgFloat"} -> [t |-> "val", x |-> v.n]
           [] v.k \in {"pgNumeric", "pgEnum", "pgText"} ->
                [t |-> "val", x |-> v.s]
           [] v.k \in {"pgBool", "pgBytea"} -> [t |-> "val", x |-> v.b]
           [] v.k = "pgTimestamp" -> [t |-> "val", x |-> v.t]
           [] v.k \in {"pgArray", "pgRow", "pgRecord"} ->
                [t |-> "val", x |-> [i \in 1..Len(v.vs) |-> ValOf(v.vs[i])]]
           [] v.k = "pgHStore" ->
                [t |-> "val", x |-> [key \in DOMAIN v.m |-> v.m[key].s]]

PanicNoColumn == "panic: No column"

\* pgRecord.Get: [val, err], err the panic for a name no column has
recordGet(k, name) ==
    IF ValueBy(k, name) = 0 THEN [val |-> Nil, err |-> PanicNoColumn]
    ELSE [val |-> ValOf(k.vs[ValueBy(k, name)]), err |-> NoErr]

(***************************************************************************)
(* Integer decode of native integers: SmallInt, Integer and BigInt values  *)
(* scanned from every integer type at the edges of every width.            *)
(***************************************************************************)
N300 == Pos(<<3, 0, 0>>)

IntSamples ==
    { Zero, Pos(<<1>>), Neg(<<1>>), N300, Neg(<<3, 0, 0>>),
      Pos(<<1, 2, 6>>), MaxInt8, Pos(<<1, 2, 8>>), MinInt8, Neg(<<1, 2, 9>>),
      Pos(<<3, 2, 7, 6, 6>>), MaxInt16, Pos(<<3, 2, 7, 6, 8>>),
      MinInt16, Neg(<<3, 2, 7, 6, 9>>),
      Pos(<<4, 0, 0, 0, 0>>), Neg(<<4, 0, 0, 0, 0>>), MaxUint16,
      Pos(<<2, 1, 4, 7, 4, 8, 3, 6, 4, 6>>), MaxInt32,
      Pos(<<2, 1, 4, 7, 4, 8, 3, 6, 4, 8>>),
      MinInt32, Neg(<<2, 1, 4, 7, 4, 8, 3, 6, 4, 9>>), MaxUint32,
      Pos(<<9, 2, 2, 3, 3, 7, 2, 0, 3, 6, 8, 5, 4, 7, 7, 5, 8, 0, 6>>),
      MaxInt64,
      Pos(<<9, 2, 2, 3, 3, 7, 2, 0, 3, 6, 8, 5, 4, 7, 7, 5, 8, 0, 8>>),
      MinInt64, MaxUint64 }

IntSources ==
    {Native(t, n) : <<t, n>> \in {x \in IntTypes \X IntSamples : InType(x[2], x[1])}}

IntKinds == {K("SmallInt"), K("Integer"), K("BigInt")}

InitInt ==
    /\ kind \in IntKinds
    /\ val = New(kind, Nil).v
    /\ arg = Nil
    /\ ret = [err |-> NoErr]
    /\ op = "new"
    /\ enc = NoBytes
    /\ back = [v |-> val, err |-> NoErr]

\* v.Scan(src) on the value under test
ScanInt ==
    \E src \in IntSources : \E r \in {Scan(val, src)} :
        /\ val' = r.v
        /\ arg' = src
        /\ ret' = [err |-> r.err]
        /\ op' = "Scan"
        /\ UNCHANGED <<kind, enc, back>>

NextInt == ScanInt

SpecInt == InitInt /\ [][NextInt]_vars

\* the signed range of a width
FitsWidth(n, w) ==
    CASE w = 16 -> NumLeq(MinInt16, n) /\ NumLeq(n, MaxInt16)
      [] w = 32 -> NumLeq(MinInt32, n) /\ NumLeq(n, MaxInt32)
      [] w = 64 -> NumLeq(MinInt64, n) /\ NumLeq(n, MaxInt64)

\* C3: a native integer scanned into an integer kind of width w is stored
\* unchanged exactly when it fits the signed w-bit range, and is refused
\* with the range error otherwise.
C3_ScanFitsExactly ==
    (op = "Scan" /\ arg.t \in IntTypes /\ val.k = "pgInteger") =>
        IF FitsWidth(arg.n, val.bs)
        THEN ret.err = NoErr /\ val.n = arg.n
        ELSE ret.err = ErrCannotFit

\* C4 as claimed: 300 is refused by SmallInt and accepted by Integer.
C4_300RefusedBySmallInt ==
    (op = "Scan" /\ arg.t \in IntTypes /\ arg.n = N300) =>
        /\ kind = K("SmallInt") => ret.err = ErrCannotFit
        /\ kind = K("Integer") => ret.err = NoErr

\* C4 amended: 300 fits 16 bits, so both SmallInt and Integer accept the
\* native integer 300 and store it.
C4_300Accepted ==
    (op = "Scan" /\ arg.t \in IntTypes /\ arg.n = N300
        /\ kind \in {K("SmallInt"), K("Integer")}) =>
        ret.err = NoErr /\ val.valid /\ val.n = N300

C4_Witness ==
    /\ op = "Scan"
    /\ kind = K("SmallInt")
    /\ arg = Native("int", N300)
    /\ ret.err = NoErr
    /\ val.n = N300

(***************************************************************************)
(* split on raw literals: every byte string over SplitBytes of up to       *)
(* MaxLen bytes, and the nested array literals of up to MaxDepth levels    *)
(* with up to MaxElems elements a level.                                   *)
(***************************************************************************)
MaxLen == 5
MaxDepth == 3
MaxElems == 2

SplitBytes == {LBRACE, RBRACE, LPAREN, RPAREN, COMMA, QUOTE, Ascii["1"]}

RawLits == UNION {[1..n -> SplitBytes] : n \in 0..MaxLen}

\* n copies of the literal e joined by commas
RECURSIVE Copies(_, _)
Copies(e, n) ==
    IF n = 0 THEN <<>>
    ELSE IF n = 1 THEN e
    ELSE e \o <<COMMA>> \o Copies(e, n - 1)

\* the literal of a d-dimensional integer array: w integers in the
\* innermost array, one element in each array around it
RECURSIVE Reg(_, _)
Reg(d, w) ==
    IF d = 0 THEN <<Ascii["1"]>>
    ELSE IF d = 1 THEN <<LBRACE>> \o Copies(Reg(0, w), w) \o <<RBRACE>>
    ELSE <<LBRACE>> \o Reg(d - 1, w) \o <<RBRACE>>

\* array literals with nested arrays as elements, and the elements they
\* hold: one nested array, two of them, an integer and a nested array
NestedLits ==
    UNION { { [b |-> Reg(x[1], x[2]), els |-> <<Reg(x[1] - 1, x[2])>>],
              [b |-> <<LBRACE>> \o Copies(Reg(x[1] - 1, x[2]), 2) \o <<RBRACE>>,
               els |-> <<Reg(x[1] - 1, x[2]), Reg(x[1] - 1, x[2])>>],
              [b |-> <<LBRACE, Ascii["1"], COMMA>> \o Reg(x[1] - 1, x[2])
                         \o <<RBRACE>>,
               els |-> << <<Ascii["1"]>>, Reg(x[1] - 1, x[2]) >>] } :
            x \in (2..MaxDepth) \X (1..MaxElems) }

SplitInputs == {[b |-> r, els |-> <<>>] : r \in RawLits} \cup NestedLits

InitSplit ==
    /\ kind = K("split")
    /\ val = Nil
    /\ arg \in SplitInputs
    /\ ret = [parts |-> <<>>, err |-> NoErr]
    /\ op = "new"
    /\ enc = NoBytes
    /\ back = [v |-> Nil, err |-> NoErr]

\* split(arg)
Split ==
    \E r \in {split(arg.b)} :
        /\ ret' = r
        /\ op' = "split"
        /\ UNCHANGED <<kind, val, arg, enc, back>>

NextSplit == Split

SpecSplit == InitSplit /\ [][NextSplit]_vars

\* an input wrapped in matching outer delimiters
Wrapped(s) ==
    /\ Len(s) >= 2
    /\ \/ s[1] = LBRACE /\ s[Len(s)] = RBRACE
       \/ s[1] = LPAREN /\ s[Len(s)] = RPAREN

\* C5: split returns an error and no element list for every input that is
\* not wrapped in matching outer delimiters.
C5_UnwrappedRefused ==
    (op = "split" /\ ~Wrapped(arg.b)) =>
        (ret.err # NoErr /\ ret.parts = <<>>)

\* C6: for an array literal whose elements include nested arrays, split
\* returns exactly the top-level elements, in order, each nested array
\* running from its opening brace to its matching closing brace.
C6_NestedElements ==
    (op = "split" /\ arg \in NestedLits) =>
        (ret.err = NoErr /\ ret.parts = arg.els)

(***************************************************************************)
(* Scalar round trips: a scalar Value is scanned from native values, its   *)
(* bytes() are taken, and a fresh Value of the same kind scans them.       *)
(***************************************************************************)
ScalarKinds ==
    { K("SmallInt"), K("Integer"), K("BigInt"), K("Real"), K("Double"),
      K("Bool"), K("Text"), K("Bytea"), K("Timestamp"),
      [c |-> "VarChar", n |-> 3], [c |-> "Char", n |-> 3],
      [c |-> "Numeric", prec |-> 10, scale |-> 2],
      [c |-> "Enum", labels |-> <<B(<<"a">>), B(<<"b", "c">>)>>] }

NativeFloat(t, digs, exp) ==
    [t |-> t, f |-> [neg |-> FALSE, digs |-> digs, exp |-> exp]]

NativeTime(tm) == [t |-> "time", tm |-> tm]

NativeBool(v) == [t |-> "bool", v |-> v]

\* 2006-01-02 15:04:05 UTC
Jan2 ==
    [Y |-> 2006, M |-> 1, D |-> 2, h |-> 15, m |-> 4, s |-> 5, ns |-> <<>>,
     off |-> 0]

ScalarSources ==
    { Nil,
      Native("int", Zero), Native("int", Pos(<<1>>)), Native("int", N300),
      Native("int64", Neg(<<4, 0, 0, 0, 0>>)), Native("int", MaxInt16),
      Native("uint8", Pos(<<7>>)), Native("int64", MaxInt64),
      NativeFloat("float64", <<1, 5>>, 1), NativeFloat("float32", <<2, 5>>, 0),
      NativeFloat("float64", <<1, 2, 3, 4, 5, 6, 7, 8, 9, 1>>, 0),
      NativeBool(TRUE), NativeBool(FALSE),
      NativeTime(Jan2), NativeTime([Jan2 EXCEPT !.ns = <<5>>, !.off = 120]),
      Str(B(<<"1", "2">>)), Str(B(<<"-", "7">>)), Bytes(B(<<"1", ".", "5">>)),
      Str(B(<<"t">>)), Bytes(B(<<"f">>)),
      Str(B(<<"a">>)), Bytes(B(<<"b", "c">>)), Str(B(<<"a", " ">>)),
      Bytes(B(<<"a", "b", "c", "d">>)), Bytes(<<>>),
      Str(B(<<"2", "0", "0", "6", "-", "0", "1", "-", "0", "2">>)),
      Str(B(<<"2", "0", "0", "6", "-", "0", "1", "-", "0", "2", " ",
              "1", "5", ":", "0", "4", ":", "0", "5">>)),
      Bytes(B(<<"1", "5", ":", "0", "4", ":", "0", "5", "+", "0", "2">>)) }

InitScalar ==
    /\ kind \in ScalarKinds
    /\ val = New(kind, Nil).v
    /\ arg = Nil
    /\ ret = [err |-> NoErr]
    /\ op = "new"
    /\ enc = NoBytes
    /\ back = [v |-> Blank(kind), err |-> NoErr]

\* val.Scan(src)
ScanScalar ==
    \E src \in ScalarSources : \E r \in {Scan(val, src)} :
        /\ val' = r.v
        /\ arg' = src
        /\ ret' = [err |-> r.err]
        /\ op' = "Scan"
        /\ enc' = NoBytes
        /\ back' = [v |-> Blank(kind), err |-> NoErr]
        /\ UNCHANGED kind

\* val.bytes()
BytesScalar ==
    /\ op = "Scan"
    /\ enc' = bytesOf(val)
    /\ op' = "bytes"
    /\ UNCHANGED <<kind, val, arg, ret, back>>

\* kind(enc): the Valstructor applied to the bytes just taken
NewScalar ==
    /\ op = "bytes"
    /\ enc.err = NoErr
    /\ \E r \in {New(kind, Bytes(enc.b))} :
           back' = [v |-> r.v, err |-> r.err]
    /\ op' = "New"
    /\ UNCHANGED <<kind, val, arg, ret, enc>>

NextScalar == ScanScalar \/ BytesScalar \/ NewScalar

SpecScalar == InitScalar /\ [][NextScalar]_vars

\* C1: when a scalar kind decodes a native value, encoding the result and
\* decoding the bytes into a fresh value of the kind succeeds and yields
\* the same payload and nullability.
C1_RoundTrip ==
    (op = "New" /\ ret.err = NoErr /\ val.valid) =>
        (back.err = NoErr /\ back.v = val)

(***************************************************************************)
(* Arrays: an Array Value of integers, of integer arrays up to MaxDepth    *)
(* dimensions, or of text, scans array literals, appends elements up to    *)
(* MaxAppend children, and gives its bytes().                              *)
(***************************************************************************)
MaxAppend == 2

\* Array(Array(... Integer)) of d dimensions
RECURSIVE NestKind(_)
NestKind(d) == IF d = 0 THEN K("Integer") ELSE ArrayOf(NestKind(d - 1))

ArrayKinds == {NestKind(d) : d \in 1..MaxDepth} \cup {ArrayOf(K("Text"))}

\* {1,2,{3,4}} and {{1,2},{3,4}}
Ragged == B(<<"{", "1", ",", "2", ",", "{", "3", ",", "4", "}", "}">>)

Rect ==
    B(<<"{", "{", "1", ",", "2", "}", ",", "{", "3", ",", "4", "}", "}">>)

\* the literals PostgreSQL writes for the arrays of a kind
CanonLits(k) ==
    IF k = ArrayOf(K("Text"))
    THEN { B(<<"{", "a", ",", "b", "}">>),
           B(<<"{", "\"", "a", " ", "b", "\"", "}">>),
           B(<<"{", "\"", "a", "\\", "\"", "b", "\"", "}">>),
           B(<<"{", "\"", "a", ",", "b", "\"", ",", "c", "}">>) }
    ELSE UNION { { Reg(x[1], x[2]),
                   <<LBRACE>> \o Copies(Reg(x[1] - 1, x[2]), 2) \o <<RBRACE>> } :
                 x \in {y \in (1..MaxDepth) \X (1..MaxElems) :
                            k = NestKind(y[1])} }
         \cup (IF k = NestKind(2) THEN {Rect} ELSE {})

ArrayLits ==
    UNION {CanonLits(k) : k \in ArrayKinds}
        \cup {Ragged, B(<<"{", "}">>), B(<<"{", "1", ",", "2">>)}

AppendSources ==
    { Native("int", Pos(<<5>>)), Str(B(<<"7">>)),
      [t |-> "Value", v |-> New(K("Integer"), Native("int", Pos(<<9>>))).v] }

InitArray ==
    /\ kind \in ArrayKinds
    /\ val = New(kind, Nil).v
    /\ arg = Nil
    /\ ret = [err |-> NoErr]
    /\ op = "new"
    /\ enc = NoBytes
    /\ back = [v |-> Blank(kind), err |-> NoErr]

\* val.Scan(lit) or val.Scan(nil)
ScanArray ==
    \E src \in {Bytes(l) : l \in ArrayLits} \cup {Nil} :
        \E r \in {Scan(val, src)} :
            /\ val' = r.v
            /\ arg' = src
            /\ ret' = [err |-> r.err]
            /\ op' = "Scan"
            /\ enc' = NoBytes
            /\ UNCHANGED <<kind, back>>

\* val.Append(src)
AppendArray ==
    /\ Len(val.vs) < MaxAppend
    /\ \E src \in AppendSources : \E r \in {arrayAppend(val, src)} :
           /\ val' = r.v
           /\ arg' = src
           /\ ret' = [err |-> r.err]
           /\ op' = "Append"
           /\ enc' = NoBytes
           /\ UNCHANGED <<kind, back>>

\* val.bytes()
BytesArray ==
    /\ op \in {"Scan", "Append"}
    /\ enc' = bytesOf(val)
    /\ op' = "bytes"
    /\ UNCHANGED <<kind, val, arg, ret, back>>

NextArray == ScanArray \/ AppendArray \/ BytesArray

SpecArray == InitArray /\ [][NextArray]_vars

\* the array after a successful Append of child c
Appended(k, c) == [k EXCEPT !.vs = Append(@, c), !.valid = TRUE]

\* C22: Append adds one child at the end, leaves the children before it
\* unchanged and makes the array non-NULL when it succeeds (the child is
\* src itself when src is a Value, of whatever kind, otherwise a new value
\* of the element kind decoded from src); when the decode fails Append
\* returns its error and the children and the NULL flag stay as they were.
C22_AppendAllOrNothing ==
    [][ op' = "Append" =>
          IF arg'.t = "Value"
          THEN ret'.err = NoErr /\ val' = Appended(val, arg'.v)
          ELSE IF Scan(Blank(val.el), arg').err = NoErr
          THEN /\ ret'.err = NoErr
               /\ val' = Appended(val, Scan(Blank(val.el), arg').v)
          ELSE /\ ret'.err = Scan(Blank(val.el), arg').err
               /\ val' = val
      ]_vars

\* an Append has failed on an array that has a child, or on one that is
\* NULL
C22_Witness ==
    /\ op = "Append"
    /\ ret.err # NoErr
    /\ (~val.valid \/ Len(val.vs) = 1)

\* C2: decoding a canonical array literal into an Array of the matching
\* element kind and encoding the result reproduces the literal byte for
\* byte.
C2_LiteralRoundTrip ==
    (op = "bytes" /\ arg.t = "bytes" /\ arg.b \in CanonLits(kind)) =>
        (ret.err = NoErr /\ enc.err = NoErr /\ enc.b = arg.b)

\* the integer payloads of an array's children
Ints(v) == [i \in 1..Len(v.vs) |-> v.vs[i].n]

\* C7 as claimed: {1,2,{3,4}} decodes into an array over integers and
\* nested integer arrays as three elements: 1, 2 and the array [3,4].
C7_RaggedDecodes ==
    (op = "Scan" /\ arg = Bytes(Ragged)
        /\ kind \in {NestKind(1), NestKind(2)}) =>
        /\ ret.err = NoErr
        /\ Len(val.vs) = 3
        /\ val.vs[3].k = "pgArray"
        /\ Ints(val.vs[3]) = <<Pos(<<3>>), Pos(<<4>>)>>

\* C7 amended: an array has one element kind, so {1,2,{3,4}} is refused
\* under both declarations: Array(Integer) appends 1 and 2 and refuses
\* {3,4} as an integer, Array(Array(Integer)) refuses 1 as an array
\* literal.  The rectangular {{1,2},{3,4}} decodes into
\* Array(Array(Integer)) as two elements, the second the array [3,4].
C7_RaggedRefused ==
    /\ (op = "Scan" /\ arg = Bytes(Ragged) /\ kind = NestKind(1)) =>
           /\ ret.err = ErrSyntax
           /\ Ints(val) = <<Pos(<<1>>), Pos(<<2>>)>>
    /\ (op = "Scan" /\ arg = Bytes(Ragged) /\ kind = NestKind(2)) =>
           /\ ret.err = ErrUnknownFormat
           /\ val.vs = <<>>
    /\ (op = "Scan" /\ arg = Bytes(Rect) /\ kind = NestKind(2)) =>
           /\ ret.err = NoErr
           /\ Len(val.vs) = 2
           /\ val.vs[2].k = "pgArray"
           /\ Ints(val.vs[2]) = <<Pos(<<3>>), Pos(<<4>>)>>

C7_Witness ==
    /\ op = "Scan"
    /\ arg = Bytes(Ragged)
    /\ kind = NestKind(1)
    /\ ret.err = ErrSyntax
    /\ Len(val.vs) = 2

(***************************************************************************)
(* Rows and Records: a Row or Record Value scans row literals and native   *)
(* lists, has columns set by name, is appended to, and gives its bytes().  *)
(***************************************************************************)
RowKinds ==
    { RowOf(<<K("Integer"), K("Text"), K("Text")>>),
      RecordOf(<<Col("id", K("Integer")), Col("name", K("Text")),
                 Col("nick", K("Text"))>>),
      RowOf(<<K("Integer"), K("Bool")>>),
      RecordOf(<<Col("id", K("Integer")), Col("id", K("Text"))>>) }

\* (1,"jeff \"the\" bob",) and (1,,b)
JeffLit ==
    B(<<"(", "1", ",", "\"", "j", "e", "f", "f", " ", "\\", "\"", "t", "h",
        "e", "\\", "\"", " ", "b", "o", "b", "\"", ",", ")">>)

GapLit == B(<<"(", "1", ",", ",", "b", ")">>)

RowLits ==
    { JeffLit, GapLit,
      B(<<"(", "1", ",", "a", ",", "b", ")">>),
      B(<<"(", "2", ",", "\"", "c", " ", "d", "\"", ",", "a", ")">>),
      B(<<"(", "7", ",", "t", ")">>),
      B(<<"(", "1", ",", "a", ",", "b", ",", "c", ")">>),
      B(<<"(", "x", ",", "a", ",", "b", ")">>),
      B(<<"(", "1", ",", "a">>),
      B(<<"1", ",", "a", ",", "b">>),
      B(<<"(", ")">>) }

RowSources ==
    {Bytes(l) : l \in RowLits}
    \cup
    { Nil, Native("int", Pos(<<5>>)), Str(B(<<"(", "3", ",", "f", ")">>)),
      List(<<Native("int", Pos(<<5>>)), Str(B(<<"a">>)), Nil>>),
      List(<<Native("int", Pos(<<5>>)), Str(B(<<"a">>))>>),
      List(<<Native("int", Pos(<<5>>)), NativeBool(TRUE)>>),
      List(<<Str(B(<<"x">>)), Str(B(<<"a">>)), Str(B(<<"b">>))>>),
      List(<<Native("int", Pos(<<5>>)), Str(B(<<"a">>)), Str(B(<<"b">>)),
             Str(B(<<"c">>))>>) }

SetNames == {"id", "name", "zz"}

SetSources == {Nil, Str(B(<<"a">>)), Native("int", Pos(<<5>>))}

InitRow ==
    /\ kind \in RowKinds
    /\ val = New(kind, Nil).v
    /\ arg = Nil
    /\ ret = [err |-> NoErr]
    /\ op = "new"
    /\ enc = NoBytes
    /\ back = [v |-> Blank(kind), err |-> NoErr]

\* val.Scan(src)
ScanRow ==
    \E src \in RowSources : \E r \in {Scan(val, src)} :
        /\ val' = r.v
        /\ arg' = src
        /\ ret' = [err |-> r.err]
        /\ op' = "Scan"
        /\ enc' = NoBytes
        /\ UNCHANGED <<kind, back>>

\* val.Set(name, src) of a Record
SetRow ==
    /\ val.k = "pgRecord"
    /\ \E name \in SetNames : \E src \in SetSources :
           \E r \in {recordSet(val, name, src)} :
               /\ val' = r.v
               /\ arg' = [name |-> name, src |-> src]
               /\ ret' = [err |-> r.err]
               /\ op' = "Set"
               /\ enc' = NoBytes
               /\ UNCHANGED <<kind, back>>

\* val.Append(src)
AppendRow ==
    \E src \in SetSources : \E r \in {rowAppend(val, src)} :
        /\ val' = r.v
        /\ arg' = src
        /\ ret' = [err |-> r.err]
        /\ op' = "Append"
        /\ enc' = NoBytes
        /\ UNCHANGED <<kind, back>>

\* val.bytes()
BytesRow ==
    /\ op # "bytes"
    /\ enc' = bytesOf(val)
    /\ op' = "bytes"
    /\ UNCHANGED <<kind, val, arg, ret, back>>

\* val.ValueBy(name) of a Record: the child returned, or nil
ValueByRow ==
    /\ val.k = "pgRecord"
    /\ \E name \in SetNames :
           /\ arg' = [name |-> name]
           /\ ret' = [v |-> IF ValueBy(val, name) = 0 THEN Nil
                            ELSE val.vs[ValueBy(val, name)]]
    /\ op' = "ValueBy"
    /\ UNCHANGED <<kind, val, enc, back>>

\* val.Get(name) of a Record
GetRow ==
    /\ val.k = "pgRecord"
    /\ \E name \in SetNames :
           /\ arg' = [name |-> name]
           /\ ret' = recordGet(val, name)
    /\ op' = "Get"
    /\ UNCHANGED <<kind, val, enc, back>>

NextRow == ScanRow \/ SetRow \/ AppendRow \/ BytesRow \/ ValueByRow \/ GetRow

SpecRow == InitRow /\ [][NextRow]_vars

\* jeff "the" bob
JeffText ==
    B(<<"j", "e", "f", "f", " ", "\"", "t", "h", "e", "\"", " ", "b", "o",
        "b">>)

\* C8: a row literal with an empty field decoded into a Row or Record of
\* as many slots succeeds, leaves the slot of the empty field NULL and
\* gives the other slots their values: (1,"jeff \"the\" bob",) leaves the
\* third slot NULL, (1,,b) the second.
C8_EmptyFieldIsNull ==
    (op = "Scan" /\ arg.t = "bytes" /\ Len(val.vs) = 3) =>
        /\ arg.b = JeffLit =>
               /\ ret.err = NoErr
               /\ val.vs[1].valid /\ val.vs[1].n = Pos(<<1>>)
               /\ val.vs[2].valid /\ val.vs[2].s = JeffText
               /\ IsNull(val.vs[3])
        /\ arg.b = GapLit =>
               /\ ret.err = NoErr
               /\ val.vs[1].valid /\ val.vs[1].n = Pos(<<1>>)
               /\ IsNull(val.vs[2])
               /\ val.vs[3].valid /\ val.vs[3].s = B(<<"b">>)

\* the sources a Scan hands to the slots: the elements of a list, the
\* parts of a literal
Handed(src) ==
    IF src.t = "list" THEN src.xs
    ELSE LET parts == split(src.b).parts
         IN  [i \in 1..Len(parts) |-> Bytes(parts[i])]

Countable(src) ==
    \/ src.t = "list"
    \/ src.t \in {"bytes", "string"} /\ split(src.b).err = NoErr

\* C9: a Scan of a Row or Record of k slots from a list of length # k or
\* from a literal of # k parts returns the arity error and leaves every
\* slot as it was; with k sources, source i is scanned into slot i, in
\* order, up to the first slot that refuses its source.
C9_ArityChecked ==
    [][ (op' = "Scan" /\ val.k \in {"pgRow", "pgRecord"} /\ Countable(arg')) =>
          LET srcs == Handed(arg')
              k == Len(val.vs)
              each == [i \in 1..k |-> Scan(val.vs[i], srcs[i])]
              Reached(i) == \A j \in 1..(i - 1) : each[j].err = NoErr
          IN  IF Len(srcs) # k
              THEN /\ ret'.err = IF arg'.t = "list" THEN ErrArityVals
                                 ELSE ErrArityCols
                   /\ val'.vs = val.vs
              ELSE /\ \A i \in 1..k :
                        val'.vs[i] = IF Reached(i) THEN each[i].v
                                     ELSE val.vs[i]
                   /\ (ret'.err = NoErr) <=> Reached(k + 1) ]_vars

C9_Witness ==
    /\ op = "Scan"
    /\ val.k = "pgRecord"
    /\ arg = Bytes(B(<<"(", "1", ",", "a", ",", "b", ",", "c", ")">>))
    /\ ret.err = ErrArityCols
    /\ val.vs[1].valid
    /\ val.vs[1].n = Pos(<<5>>)

\* the slots a kind declares
Slots(d) ==
    IF d.c = "Row" THEN d.ks ELSE [i \in 1..Len(d.cols) |-> d.cols[i].k]

\* the kind and metadata of a Value, without its payload
ShapeOf(v) ==
    CASE v.k = "pgInteger" -> <<v.k, v.bs>>
      [] v.k = "pgFloat" -> <<v.k, v.bs>>
      [] v.k = "pgText" -> <<v.k, v.n, v.p>>
      [] v.k = "pgNumeric" -> <<v.k, v.prec, v.scale>>
      [] v.k = "pgEnum" -> <<v.k, v.ls>>
      [] v.k = "pgArray" -> <<v.k, v.el>>
      [] OTHER -> <<v.k>>

FixedShape ==
    /\ Len(val.vs) = Len(Slots(kind))
    /\ \A i \in 1..Len(val.vs) :
           ShapeOf(val.vs[i]) = ShapeOf(Blank(Slots(kind)[i]))

AppendRefused ==
    op' = "Append" =>
        (ret'.err \in {ErrAppendRow, ErrAppendRecord} /\ val' = val)

\* C10: whatever Scan, Set and Append calls are made, a Row or Record of
\* k slots has exactly k children, each a Value of its slot's kind; an
\* Append returns an error and changes nothing.
C10_FixedShape == []FixedShape /\ [][AppendRefused]_vars

C10_Witness ==
    /\ op = "Append"
    /\ ret.err = ErrAppendRecord
    /\ val.valid
    /\ Len(val.vs) = 3
    /\ val.vs[2].valid

(***************************************************************************)
(* Every kind of Value, built from nil data, scanned from nil and from     *)
(* literals, then asked IsNull(), Val() and bytes().                       *)
(***************************************************************************)
HStoreKind == K("HStore")

\* an array of timestamps, a row with a child of every other bare and
\* quoted kind, and a row of one text
MixedKinds ==
    { ArrayOf(K("Timestamp")),
      RowOf(<<K("Timestamp"), K("Double"), K("Bool"), K("Bytea")>>),
      RowOf(<<K("Text")>>) }

ValueKinds ==
    ScalarKinds \cup ArrayKinds \cup RowKinds \cup MixedKinds \cup {HStoreKind}

KvLit == B(<<"\"", "k", "\"", " ", "=", ">", " ", "\"", "v", "\"">>)

\* a map[string]string handed to Scan
NativeMap(m) == [t |-> "map", m |-> m]

\* a"b and c\d
QuoteText == B(<<"a", "\"", "b">>)

SlashText == B(<<"c", "\\", "d">>)

\* \x41
HexText == B(<<"\\", "x", "4", "1">>)

ValueSources ==
    { Nil, Bytes(<<>>), Bytes(B(<<"1">>)), Bytes(B(<<"{", "1", "}">>)),
      Bytes(Rect),
      Bytes(JeffLit), Bytes(KvLit), NativeMap(B(<<"a">>) :> B(<<"b">>)),
      List(<<Native("int", Pos(<<5>>)), Nil>>),
      List(<<Native("int", Pos(<<5>>)), Str(QuoteText), Str(SlashText)>>),
      List(<<Native("int", Pos(<<5>>)), Str(B(<<"a">>)), Nil>>),
      List(<<Str(QuoteText), Nil, Str(SlashText)>>),
      List(<<Str(QuoteText)>>), List(<<Str(HexText)>>),
      List(<<Native("int", Pos(<<5>>)), Native("int", Pos(<<5>>)),
             Str(B(<<"a">>))>>),
      List(<<NativeTime(Jan2), NativeTime(Jan2)>>),
      List(<<NativeTime(Jan2), NativeFloat("float64", <<1, 5>>, 1),
             NativeBool(TRUE), Bytes(QuoteText)>>) }

\* hstore literals: up to MaxPairs pairs with distinct keys, the shorter key
\* first, joined by a comma and a space; a pair is "k" => "v" (q TRUE) or "k" => NULL
MaxPairs == 2

HsKeys == {<<Ascii["k"]>> \o [j \in 1..(i - 1) |-> Ascii["2"]] : i \in 1..MaxPairs}

HsVals == {B(<<"v">>), <<>>, nullb}

HsPairs ==
    {[k |-> key, q |-> TRUE, v |-> v] : key \in HsKeys, v \in HsVals}
        \cup {[k |-> key, q |-> FALSE, v |-> nullb] : key \in HsKeys}

PairLists ==
    {ps \in UNION {[1..n -> HsPairs] : n \in 1..MaxPairs} :
        \A i, j \in 1..Len(ps) : i < j => Len(ps[i].k) < Len(ps[j].k)}

Arrow == B(<<" ", "=", ">", " ">>)

RenderPair(p) ==
    <<QUOTE>> \o p.k \o <<QUOTE>> \o Arrow
        \o (IF p.q THEN <<QUOTE>> \o p.v \o <<QUOTE>> ELSE nullb)

RECURSIVE Render(_)
Render(ps) ==
    IF Len(ps) = 1 THEN RenderPair(ps[1])
    ELSE RenderPair(ps[1]) \o <<COMMA, SPACE>> \o Render(Tail(ps))

HsLits == {[b |-> Render(ps), ps |-> ps] : ps \in PairLists}

\* "k , "k" => "v , "k" "v" , "k" = "v" and "k" => NU
MalformedLits ==
    { B(<<"\"", "k">>),
      B(<<"\"", "k", "\"", " ", "=", ">", " ", "\"", "v">>),
      B(<<"\"", "k", "\"", " ", "\"", "v", "\"">>),
      B(<<"\"", "k", "\"", " ", "=", " ", "\"", "v", "\"">>),
      B(<<"\"", "k", "\"", " ", "=", ">", " ", "N", "U">>) }

\* "a""b" => "v" and "a\\b" => "v", with the pair each is to give: the key
\* a"b and the key a\b
EscapedLits ==
    { [b |-> B(<<"\"", "a", "\"", "\"", "b", "\"", " ", "=", ">", " ",
                 "\"", "v", "\"">>),
       key |-> B(<<"a", "\"", "b">>), v |-> B(<<"v">>)],
      [b |-> B(<<"\"", "a", "\\", "\\", "b", "\"", " ", "=", ">", " ",
                 "\"", "v", "\"">>),
       key |-> B(<<"a", "\\", "b">>), v |-> B(<<"v">>)] }

\* the hstore literals are handed to HStore Values only
HStoreSources(d) ==
    IF d = HStoreKind
    THEN {Bytes(l.b) : l \in HsLits} \cup {Bytes(b) : b \in MalformedLits}
             \cup {Bytes(l.b) : l \in EscapedLits}
    ELSE {}

InitValue ==
    /\ kind \in ValueKinds
    /\ val = New(kind, Nil).v
    /\ arg = Nil
    /\ ret = [err |-> New(kind, Nil).err]
    /\ op = "New"
    /\ enc = NoBytes
    /\ back = NoBytes

ScanValue ==
    \E src \in ValueSources \cup HStoreSources(kind) :
        \E r \in {Scan(val, src)} :
            /\ val' = r.v
            /\ arg' = src
            /\ ret' = [err |-> r.err]
            /\ op' = "Scan"
            /\ enc' = NoBytes
            /\ back' = NoBytes
            /\ UNCHANGED kind

IsNullValue ==
    /\ ret' = [isnull |-> IsNull(val)]
    /\ op' = "IsNull"
    /\ back' = NoBytes
    /\ UNCHANGED <<kind, val, arg, enc>>

ValValue ==
    /\ ret' = [val |-> ValOf(val)]
    /\ op' = "Val"
    /\ back' = NoBytes
    /\ UNCHANGED <<kind, val, arg, enc>>

BytesValue ==
    \E e \in bytesAny(val) :
        /\ enc' = e
        /\ ret' = [err |-> e.err]
        /\ op' = "bytes"
        /\ back' = NoBytes
        /\ UNCHANGED <<kind, val, arg>>

\* the bytes val.bytes() returned, handed to the constructor of the kind:
\* back is the new Value and the error
DecodeValue ==
    /\ op = "bytes"
    /\ enc.err = NoErr
    /\ back' = New(kind, Bytes(enc.b))
    /\ op' = "decode"
    /\ UNCHANGED <<kind, val, arg, ret, enc>>

NextValue ==
    ScanValue \/ IsNullValue \/ ValValue \/ BytesValue \/ DecodeValue

SpecValue == InitValue /\ [][NextValue]_vars

\* C11: a Value of any kind whose last source was nil reports IsNull() true,
\* returns nil from Val(), and bytes() returns exactly the token NULL.
C11_NullValue ==
    arg = Nil =>
        /\ IsNull(val)
        /\ op = "IsNull" => ret.isnull
        /\ op = "Val" => ret.val = Nil
        /\ op = "bytes" => enc.b = nullb /\ enc.err = NoErr

\* escape restated byte by byte: \ is doubled; " gets a \ before it in an
\* array and is doubled in a row
EscapeByte(c, t) ==
    IF c = BACKSLASH THEN <<BACKSLASH, BACKSLASH>>
    ELSE IF c = QUOTE THEN (IF t = 1 THEN <<BACKSLASH, QUOTE>> ELSE <<QUOTE, QUOTE>>)
    ELSE <<c>>

RECURSIVE Escaped(_, _)
Escaped(s, t) ==
    IF s = <<>> THEN <<>> ELSE EscapeByte(Head(s), t) \o Escaped(Tail(s), t)

\* the kinds written bare: integer, decimal, float and boolean, and in an
\* array also a nested array and a timestamp
WrittenBare(c, t) ==
    \/ c.k \in {"pgInteger", "pgNumeric", "pgFloat", "pgBool"}
    \/ t = 1 /\ c.k \in {"pgArray", "pgTimestamp"}

ChildText(c, t) ==
    IF WrittenBare(c, t) THEN bytesOf(c).b
    ELSE <<QUOTE>> \o Escaped(bytesOf(c).b, t) \o <<QUOTE>>

RECURSIVE CommaJoin(_, _)
CommaJoin(cs, t) ==
    IF cs = <<>> THEN <<>>
    ELSE IF Len(cs) = 1 THEN ChildText(cs[1], t)
    ELSE ChildText(cs[1], t) \o <<COMMA>> \o CommaJoin(Tail(cs), t)

NotNull(c) == c.valid

IsContainer(v) == v.k \in {"pgArray", "pgRow", "pgRecord"}

ContainerText(v, cs) ==
    IF v.k = "pgArray" THEN <<LBRACE>> \o CommaJoin(cs, 1) \o <<RBRACE>>
    ELSE <<LPAREN>> \o CommaJoin(cs, 2) \o <<RPAREN>>

\* C12: bytes() of a non-NULL array or row is the opening delimiter, the
\* texts of its non-NULL children in order joined by single commas, and the
\* closing delimiter; a child is bare when its kind is integer, decimal,
\* float or boolean (in an array also array or timestamp), else quoted and
\* escaped in the container's dialect.
C12_ContainerLiteral ==
    (op = "bytes" /\ IsContainer(val) /\ val.valid) =>
        /\ enc.err = NoErr
        /\ enc.b = ContainerText(val, SelectSeq(val.vs, NotNull))

(***************************************************************************)
(* Text kinds: Text, VarChar(n) and Char(n) Values scan every text of up   *)
(* to MaxText bytes, as a string and as a byte string, and give their      *)
(* bytes(); the Valstructor is applied to the same sources.                *)
(***************************************************************************)
MaxText == 3

\* a letter, the space and the two bytes of the UTF-8 encoding of e-acute
TextBytes == {Ascii["a"], SPACE, 195, 169}

Texts == UNION {[1..n -> TextBytes] : n \in 0..MaxText}

TextSources ==
    {Str(t) : t \in Texts} \cup {Bytes(t) : t \in Texts}
        \cup {Nil, Native("int", Pos(<<5>>))}

TextKinds ==
    { K("Text"), [c |-> "VarChar", n |-> 0], [c |-> "VarChar", n |-> 1],
      [c |-> "VarChar", n |-> 3], [c |-> "Char", n |-> 1],
      [c |-> "Char", n |-> 3], [c |-> "Char", n |-> 5] }

InitText ==
    /\ kind \in TextKinds
    /\ val = New(kind, Nil).v
    /\ arg = Nil
    /\ ret = [err |-> NoErr]
    /\ op = "new"
    /\ enc = NoBytes
    /\ back = [v |-> Blank(kind), err |-> NoErr, isnil |-> FALSE]

\* val.Scan(src)
TextScan ==
    \E src \in TextSources : \E r \in {Scan(val, src)} :
        /\ val' = r.v
        /\ arg' = src
        /\ ret' = [err |-> r.err]
        /\ op' = "Scan"
        /\ enc' = NoBytes
        /\ back' = [v |-> Blank(kind), err |-> NoErr, isnil |-> FALSE]
        /\ UNCHANGED kind

\* val.bytes()
TextBytesOf ==
    /\ op = "Scan"
    /\ enc' = bytesOf(val)
    /\ op' = "bytes"
    /\ UNCHANGED <<kind, val, arg, ret, back>>

\* kind(src): the Valstructor applied to the source val last scanned
TextNew ==
    /\ op = "bytes"
    /\ \E r \in {New(kind, arg)} : back' = r
    /\ op' = "New"
    /\ UNCHANGED <<kind, val, arg, ret, enc>>

NextText == TextScan \/ TextBytesOf \/ TextNew

SpecText == InitText /\ [][NextText]_vars

IsText(src) == src.t \in {"string", "bytes"}

\* t with its trailing spaces removed, and t padded with spaces to n bytes
Trimmed(t) ==
    SubSeq(t, 1, CHOOSE j \in 0..Len(t) :
                     /\ j = 0 \/ t[j] # SPACE
                     /\ \A i \in (j + 1)..Len(t) : t[i] = SPACE)

PaddedTo(t, n) == [i \in 1..n |-> IF i <= Len(t) THEN t[i] ELSE SPACE]

\* C13: Char(n) decoding text t, with t' = t less its trailing spaces:
\* a t' longer than n is refused with the length error; otherwise the
\* value stored, and encoded by bytes(), is t' padded with spaces to
\* exactly n bytes.
C13_CharPads ==
    (kind.c = "Char" /\ IsText(arg)) =>
        IF Len(Trimmed(arg.b)) > kind.n
        THEN /\ ret.err = ErrCharFit
             /\ op = "New" => back.err = ErrCharFit
        ELSE /\ ret.err = NoErr
             /\ val.valid
             /\ val.s = PaddedTo(Trimmed(arg.b), kind.n)
             /\ op \in {"bytes", "New"} =>
                    enc.b = PaddedTo(Trimmed(arg.b), kind.n)
             /\ op = "New" => back.err = NoErr /\ back.v = val

\* the limit of a text kind, 0 for none
LimitOf(d) == IF d.c = "Text" THEN 0 ELSE d.n

FirstBytes(t, n) == IF n > 0 /\ Len(t) > n THEN [i \in 1..n |-> t[i]] ELSE t

\* C14: VarChar(n) with n > 0 decoding any text t never fails and stores
\* the first n bytes of a t longer than n, and t itself otherwise; Text and
\* VarChar(0) store t unchanged.
C14_VarCharTruncates ==
    (kind.c \in {"Text", "VarChar"} /\ IsText(arg)) =>
        /\ ret.err = NoErr
        /\ val.valid
        /\ val.s = FirstBytes(arg.b, LimitOf(kind))
        /\ op = "New" =>
               /\ back.err = NoErr
               /\ ~back.isnil
               /\ back.v.s = FirstBytes(arg.b, LimitOf(kind))

\* VarChar(1) was handed a text of three bytes and kept the first
C14_Witness ==
    /\ kind = [c |-> "VarChar", n |-> 1]
    /\ op = "New"
    /\ arg = Str(B(<<"a", " ", "a">>))
    /\ val.s = B(<<"a">>)
    /\ back.v.s = B(<<"a">>)

\* the texts a boolean is read from: first byte t or 1 for true, f or 0
\* for false
BoolText(src) ==
    /\ IsText(src)
    /\ src.b # <<>>
    /\ src.b[1] \in {Ascii["t"], Ascii["f"], Ascii["1"], Ascii["0"]}

\* C15 (over SpecScalar): Bool decode of a non-nil source succeeds only for
\* a native boolean or a text whose first byte is t, f, 1 or 0, giving true
\* for t and 1 and false for f and 0; every other source is refused with
\* the type-mismatch error.
C15_BoolStrict ==
    (kind = K("Bool") /\ op = "Scan" /\ arg # Nil) =>
        IF arg.t = "bool" THEN ret.err = NoErr /\ val.b = arg.v
        ELSE IF BoolText(arg)
        THEN /\ ret.err = NoErr
             /\ val.b = (arg.b[1] \in {Ascii["t"], Ascii["1"]})
        ELSE ret.err = ErrCannotSet

\* C16 (over SpecScalar): Enum(labels) decode of a string or byte-string
\* source succeeds exactly when the text equals one of the labels, and
\* every other text is refused with the invalid-enum-value error.
C16_EnumMember ==
    (kind.c = "Enum" /\ op = "Scan" /\ IsText(arg)) =>
        IF \E i \in 1..Len(kind.labels) : kind.labels[i] = arg.b
        THEN ret.err = NoErr /\ val.valid /\ val.s = arg.b
        ELSE ret.err = ErrEnum

\* the label a followed by a space is not a label
C16_Witness ==
    /\ kind.c = "Enum"
    /\ op = "Scan"
    /\ arg = Str(B(<<"a", " ">>))
    /\ ret.err = ErrEnum

\* C29 (over SpecScalar): whatever has been decoded into an Enum value, a
\* value that is not NULL holds one of its labels, as text (Val) and as
\* bytes: a decode that was refused leaves no other text in it.
C29_EnumHoldsLabel ==
    (kind.c = "Enum" /\ ~IsNull(val)) =>
        /\ \E i \in 1..Len(kind.labels) : kind.labels[i] = val.s
        /\ \E i \in 1..Len(kind.labels) :
               kind.labels[i] = pgEnumBytes(val).b

\* the slots of a Record that carry a name, and the first of them
SlotsNamed(v, name) == {i \in 1..Len(v.cs) : v.cs[i].name = name}

FirstNamed(v, name) ==
    CHOOSE i \in SlotsNamed(v, name) : \A j \in SlotsNamed(v, name) : i <= j

\* C17 (over SpecRow): on a Record, ValueBy(name) returns the child of the
\* first slot of that name, or nil when no slot has it; Set(name, src) on a
\* missing name returns the no-column error and changes no slot, and on an
\* existing name scans src into that slot and changes no other; Get(name)
\* on a missing name panics and returns nothing.
C17_NameAccess ==
    [][ /\ op' = "ValueBy" =>
             ret'.v = IF SlotsNamed(val, arg'.name) = {} THEN Nil
                      ELSE val.vs[FirstNamed(val, arg'.name)]
        /\ op' = "Get" =>
             IF SlotsNamed(val, arg'.name) = {}
             THEN ret' = [val |-> Nil, err |-> PanicNoColumn]
             ELSE /\ ret'.err = NoErr
                  /\ ret'.val = ValOf(val.vs[FirstNamed(val, arg'.name)])
        /\ op' = "Set" =>
             IF SlotsNamed(val, arg'.name) = {}
             THEN ret'.err = ErrNoColumn /\ val' = val
             ELSE \E r \in {Scan(val.vs[FirstNamed(val, arg'.name)], arg'.src)} :
                      /\ ret'.err = r.err
                      /\ val' = [val EXCEPT
                                    !.vs[FirstNamed(val, arg'.name)] = r.v]
      ]_vars

\* Set on the name two columns share reached the first of them only
C17_Witness ==
    /\ op = "Set"
    /\ arg = [name |-> "id", src |-> Str(B(<<"a">>))]
    /\ Len(val.cs) = 2
    /\ ret.err = ErrSyntax
    /\ val.vs[1].valid
    /\ ~val.vs[2].valid

\* C18 (over SpecValue): an HStore scanning a literal of comma-separated
\* pairs with distinct keys, each "k" => "v" or "k" => NULL, holds exactly
\* the keys whose value was double-quoted, each mapped to its value text,
\* and no key whose value was the token NULL.
C18_NullDropped ==
    (kind = HStoreKind /\ op = "Scan" /\ arg.t = "bytes") =>
        \A l \in HsLits :
            arg.b = l.b =>
                /\ ret.err = NoErr
                /\ DOMAIN val.m = {l.ps[i].k : i \in {j \in 1..Len(l.ps) : l.ps[j].q}}
                /\ \A i \in 1..Len(l.ps) :
                       l.ps[i].q => val.m[l.ps[i].k].s = l.ps[i].v

\* C19 (over SpecValue): a malformed hstore literal, with an unterminated
\* quoted key or value or without => between key and value, is refused
\* with an error.
C19_MalformedRefused ==
    (kind = HStoreKind /\ op = "Scan" /\ arg.t = "bytes"
        /\ arg.b \in MalformedLits) => ret.err # NoErr

\* C24: in a key-value literal a doubled quote inside a quoted key or
\* value does not end it and stands for one quote, and a doubled backslash
\* stands for one backslash: "a""b" => "v" gives the one pair a"b, v and
\* "a\\b" => "v" the one pair a\b, v.
C24_RowModeEscapes ==
    \A l \in EscapedLits :
        (kind = HStoreKind /\ op = "Scan" /\ arg = Bytes(l.b)) =>
            /\ ret.err = NoErr
            /\ val.m = hsTexts(MapPut(EmptyMap, l.key, l.v))

\* C27: the bytes of a non-NULL array or row that has a NULL child decode
\* into a new value of the same kind without error, with as many children,
\* NULL where the child was NULL and equal to the child elsewhere.
C27_NullChildRoundTrip ==
    (/\ op = "decode"
     /\ IsContainer(val)
     /\ val.valid
     /\ \E i \in 1..Len(val.vs) : ~val.vs[i].valid) =>
        /\ back.err = NoErr
        /\ Len(back.v.vs) = Len(val.vs)
        /\ \A i \in 1..Len(val.vs) :
               IF val.vs[i].valid THEN back.v.vs[i] = val.vs[i]
               ELSE ~back.v.vs[i].valid

\* C28: the bytes of an Array(Text) or Row(Text) with one child that holds
\* a text decode into a new value of the kind with one child that holds
\* the same text, whatever the text: with quotes, a backslash, or
\* beginning with the two bytes \x.
C28_TextRoundTrip ==
    (/\ op = "decode"
     /\ kind \in {ArrayOf(K("Text")), RowOf(<<K("Text")>>)}
     /\ val.valid
     /\ Len(val.vs) = 1
     /\ val.vs[1].valid) =>
        /\ back.err = NoErr
        /\ Len(back.v.vs) = 1
        /\ back.v.vs[1].valid
        /\ back.v.vs[1].s = val.vs[1].s

\* C30: the decode of text bytes, the empty text and texts of one byte
\* included, into a value of any kind ends with its result, success or an
\* error: no index is read past the ends of the text.
C30_NeverFaults ==
    (op = "Scan" /\ arg.t \in {"bytes", "string"}) => ret.err # PanicIndex

\* the least member of a set of numbers
Least(S) == CHOOSE i \in S : \A j \in S : i <= j

\* what slot i of a row makes of its source, and what a new element of an
\* array makes of source i
SlotScan(k, srcs, i) == Scan(k.vs[i], srcs[i])

ElemScan(k, srcs, i) ==
    IF srcs[i].t = "Value" THEN [v |-> srcs[i].v, err |-> NoErr]
    ELSE Scan(Blank(k.el), srcs[i])

\* the children that refuse their source
BadSlots(k, srcs) ==
    {i \in 1..Len(k.vs) : SlotScan(k, srcs, i).err # NoErr}

BadElems(k, srcs) ==
    {i \in 1..Len(srcs) : ElemScan(k, srcs, i).err # NoErr}

\* the row stopped at slot f: the slots before f hold what they decoded,
\* those after f what they held
RowStoppedAt(k, k2, srcs, f) ==
    /\ Len(k2.vs) = Len(k.vs)
    /\ \A j \in 1..(f - 1) : k2.vs[j] = SlotScan(k, srcs, j).v
    /\ \A j \in (f + 1)..Len(k.vs) : k2.vs[j] = k.vs[j]

\* the array stopped at element f: its children are those decoded before f
ArrayStoppedAt(k, k2, srcs, f) ==
    k2.vs = [j \in 1..(f - 1) |-> ElemScan(k, srcs, j).v]

\* C23: when a child of a row or of an array refuses its source, the
\* decode returns the error of the first such child and decodes no child
\* after it: the slots of a row after it keep the values they had, and the
\* children of an array are the elements decoded before it.
C23_StopsAtFirstFailure ==
    [][ (/\ op' = "Scan"
         /\ val.k \in {"pgArray", "pgRow", "pgRecord"}
         /\ arg'.t # "nil"
         /\ childSources(arg').err = NoErr) =>
          IF val.k = "pgArray"
          THEN BadElems(val, childSources(arg').srcs) # {} =>
                 /\ ret'.err =
                        ElemScan(val, childSources(arg').srcs,
                            Least(BadElems(val, childSources(arg').srcs))).err
                 /\ ArrayStoppedAt(val, val', childSources(arg').srcs,
                        Least(BadElems(val, childSources(arg').srcs)))
          ELSE (/\ Len(childSources(arg').srcs) = Len(val.vs)
                /\ BadSlots(val, childSources(arg').srcs) # {}) =>
                 /\ ret'.err =
                        SlotScan(val, childSources(arg').srcs,
                            Least(BadSlots(val, childSources(arg').srcs))).err
                 /\ RowStoppedAt(val, val', childSources(arg').srcs,
                        Least(BadSlots(val, childSources(arg').srcs)))
      ]_vars

\* a row of three slots has refused the source of its second slot, its
\* first slot holding 5 and its third a text that was there before
C23_Witness ==
    /\ op = "Scan"
    /\ val.k = "pgRow"
    /\ arg = List(<<Native("int", Pos(<<5>>)), Native("int", Pos(<<5>>)),
                    Str(B(<<"a">>))>>)
    /\ ret.err # NoErr
    /\ Len(val.vs) = 3
    /\ val.vs[1].valid
    /\ val.vs[3].valid
    /\ bytesOf(val.vs[3]).b # B(<<"a">>)

(***************************************************************************)
(* Query: the chained builders Where, And, Limit and Offset.  val is the   *)
(* heap: qs the Query structs that exist (a *Query is its index), mem the  *)
(* backing arrays of their where and whereParams slices.  A slice is the   *)
(* array it points into (0 for nil), its length and its capacity.          *)
(***************************************************************************)
MaxChain == 3

MaxQueries == 3

NilSlice == [a |-> 0, n |-> 0, c |-> 0]

\* the elements of a slice
Elems(mem, s) == IF s.a = 0 THEN <<>> ELSE SubSeq(mem[s.a], 1, s.n)

\* the capacity append allocates when cap(s) is too small (runtime.growslice
\* for a slice of fewer than 256 elements)
growCap(old, needed) == IF needed > 2 * old THEN needed ELSE 2 * old

\* append(s, xs...): [mem, s]; the values are written into the array of s
\* when its capacity allows, into a new array otherwise
appendTo(mem, s, xs) ==
    IF xs = <<>> THEN [mem |-> mem, s |-> s]
    ELSE IF s.n + Len(xs) <= s.c
    THEN [mem |-> [mem EXCEPT ![s.a] =
                      [i \in 1..s.c |->
                          IF i > s.n /\ i <= s.n + Len(xs) THEN xs[i - s.n]
                          ELSE @[i]]],
          s |-> [s EXCEPT !.n = s.n + Len(xs)]]
    ELSE [mem |-> Append(mem,
                      [i \in 1..growCap(s.c, s.n + Len(xs)) |->
                          IF i <= s.n THEN mem[s.a][i]
                          ELSE IF i <= s.n + Len(xs) THEN xs[i - s.n]
                          ELSE <<>>]),
          s |-> [a |-> Len(mem) + 1, n |-> s.n + Len(xs),
                 c |-> growCap(s.c, s.n + Len(xs))]]

\* the relations of the database: the columns (name, primary key or not)
\* and the references (kind, the relation referred to, the column holding
\* the foreign key) of each
Users ==
    [Name |-> "users",
     cols |-> <<[name |-> B(<<"i", "d">>), pk |-> TRUE],
                [name |-> B(<<"n">>), pk |-> FALSE]>>,
     refs |-> <<[kind |-> "r_hasMany", rel |-> "posts",
                 col |-> B(<<"u", "i", "d">>)]>>]

Posts ==
    [Name |-> "posts",
     cols |-> <<[name |-> B(<<"i", "d">>), pk |-> TRUE],
                [name |-> B(<<"u", "i", "d">>), pk |-> FALSE],
                [name |-> B(<<"L">>), pk |-> FALSE]>>,
     refs |-> <<[kind |-> "r_hasOne", rel |-> "users",
                 col |-> B(<<"u", "i", "d">>)],
                [kind |-> "r_hasOne", rel |-> "logs", col |-> B(<<"L">>)]>>]

Logs ==
    [Name |-> "logs",
     cols |-> <<[name |-> B(<<"t">>), pk |-> FALSE]>>,
     refs |-> <<[kind |-> "r_hasMany", rel |-> "posts", col |-> B(<<"L">>)]>>]

\* the nil *Relation
NoRel == [Name |-> "", cols |-> <<>>, refs |-> <<>>]

\* a Query of a relation, nothing added yet
newQuery(err) ==
    [from |-> Users, where |-> NilSlice, whereParams |-> NilSlice,
     order |-> "", limit |-> 0, offset |-> 0, err |-> err]

ErrPending == "RecordValue given to For() does not belong to a relation"

PanicCp == "panic: cp should not be called when there is a pending error"

\* Query.cp: a new struct with every field of q, the slice headers included
cp(q) ==
    [from |-> q.from, where |-> q.where, whereParams |-> q.whereParams,
     order |-> q.order, limit |-> q.limit, offset |-> q.offset,
     err |-> IF q.err # NoErr THEN PanicCp ELSE q.err]

\* the second append of Where, and its return: [h, ret]
whereParamsAppend(h, q2, r) ==
    [h |-> [qs |-> Append(h.qs, [q2 EXCEPT !.whereParams = r.s]),
            mem |-> r.mem],
     ret |-> Len(h.qs) + 1]

\* the first append of Where
whereAppend(h, q2, r, params) ==
    whereParamsAppend([h EXCEPT !.mem = r.mem], [q2 EXCEPT !.where = r.s],
                      appendTo(r.mem, q2.whereParams, params))

\* Query.Where on Query i of heap h: [h, ret], ret the *Query returned
Where(h, i, w, params) ==
    IF h.qs[i].err # NoErr THEN [h |-> h, ret |-> i]
    ELSE whereAppend(h, cp(h.qs[i]),
                     appendTo(h.mem, cp(h.qs[i]).where, <<w>>), params)

\* Query.And
And(h, i, w, params) == Where(h, i, w, params)

\* Query.Limit
Limit(h, i, n) ==
    IF h.qs[i].err # NoErr THEN [h |-> h, ret |-> i]
    ELSE [h |-> [h EXCEPT !.qs = Append(@, [cp(h.qs[i]) EXCEPT !.limit = n])],
          ret |-> Len(h.qs) + 1]

\* Query.Offset
Offset(h, i, n) ==
    IF h.qs[i].err # NoErr THEN [h |-> h, ret |-> i]
    ELSE [h |-> [h EXCEPT !.qs = Append(@, [cp(h.qs[i]) EXCEPT !.offset = n])],
          ret |-> Len(h.qs) + 1]

\* c = $1
ChainClause == B(<<"c", " ", "=", " ", "$", "1">>)

\* the heap after n chained Where calls on a new Query, only the last Query
\* of the chain kept
RECURSIVE Chained(_)
Chained(n) ==
    IF n = 0 THEN [qs |-> <<newQuery(NoErr)>>, mem |-> <<>>]
    ELSE [qs |-> <<Where(Chained(n - 1), 1, ChainClause, <<B(<<"7">>)>>).h.qs[2]>>,
          mem |-> Where(Chained(n - 1), 1, ChainClause, <<B(<<"7">>)>>).h.mem]

QueryHeaps ==
    {Chained(n) : n \in 0..MaxChain}
        \cup {[qs |-> <<newQuery(ErrPending)>>, mem |-> <<>>]}

\* the conditions given to Where and And, each with its parameters
WhereArgs ==
    {[w |-> B(<<"a", " ", "=", " ", "$", "1">>), params |-> <<B(<<"x">>)>>],
     [w |-> B(<<"b">>), params |-> <<>>],
     [w |-> B(<<"c", " ", "=", " ", "$", "1", " ", "A", "N", "D", " ",
                "d", " ", "=", " ", "$", "2">>),
      params |-> <<B(<<"x">>), B(<<"k">>)>>]}

DOLLAR == Ascii["$"]

\* the end of the run of digits that starts at j
RECURSIVE placeDigits(_, _)
placeDigits(st, j) ==
    IF j < Len(st) /\ IsDigit(At(st, j)) THEN placeDigits(st, j + 1) ELSE j

\* placePat, (?:[^\\]\$)(\d+), on st from byte p: the matches [a, z) from
\* left to right, each a byte that is no backslash, a $ and digits
RECURSIVE placePat(_, _)
placePat(st, p) ==
    IF p + 3 > Len(st) THEN <<>>
    ELSE IF At(st, p) # BACKSLASH /\ At(st, p + 1) = DOLLAR
              /\ IsDigit(At(st, p + 2))
    THEN <<[a |-> p, z |-> placeDigits(st, p + 3)]>>
             \o placePat(st, placeDigits(st, p + 3))
    ELSE placePat(st, p + 1)

\* strconv.ParseInt(ds, 10, 64) of a run of digits, and %d of a number
RECURSIVE atoi(_)
atoi(ds) ==
    IF ds = <<>> THEN 0
    ELSE 10 * atoi(SubSeq(ds, 1, Len(ds) - 1)) + (ds[Len(ds)] - 48)

RECURSIVE itoa(_)
itoa(n) == IF n < 10 THEN <<48 + n>> ELSE itoa(n \div 10) \o <<48 + (n % 10)>>

\* the placeholder numbers of st: m[1] of every match
placeNums(st) ==
    [j \in 1..Len(placePat(st, 0)) |->
        atoi(Slice(st, placePat(st, 0)[j].a + 2, placePat(st, 0)[j].z))]

\* the biggest $X of st, i when none is bigger
placeMax(st, i) ==
    IF \E j \in 1..Len(placeNums(st)) : placeNums(st)[j] > i
    THEN CHOOSE n \in {placeNums(st)[j] : j \in 1..Len(placeNums(st))} :
             \A j \in 1..Len(placeNums(st)) : placeNums(st)[j] <= n
    ELSE i

\* placePat.ReplaceAllStringFunc: st from byte p with matches ms[j..], each
\* match m replaced by m[0:2] and m[2:] plus one
RECURSIVE placeReplace(_, _, _, _)
placeReplace(st, ms, j, p) ==
    IF j > Len(ms) THEN Slice(st, p, Len(st))
    ELSE Slice(st, p, ms[j].a + 2)
             \o itoa(atoi(Slice(st, ms[j].a + 2, ms[j].z)) + 1)
             \o placeReplace(st, ms, j + 1, ms[j].z)

\* the loop of whereExpr from clause idx: i the biggest $X seen, sts the
\* strings to join
RECURSIVE whereLoop(_, _, _, _)
whereLoop(where, idx, i, sts) ==
    IF idx > Len(where) THEN sts
    ELSE IF i = 0
    THEN IF placePat(where[idx], 0) = <<>>
         THEN whereLoop(where, idx + 1, i, sts)
         ELSE whereLoop(where, idx + 1, placeMax(where[idx], i),
                        [sts EXCEPT ![idx] = where[idx]])
    ELSE whereLoop(where, idx + 1, i,
             [sts EXCEPT ![idx] =
                 placeReplace(where[idx], placePat(where[idx], 0), 1, 0)])

\* strings.Join(sts, sep)
RECURSIVE Join(_, _)
Join(sts, sep) ==
    IF sts = <<>> THEN <<>>
    ELSE IF Len(sts) = 1 THEN sts[1]
    ELSE sts[1] \o sep \o Join(Tail(sts), sep)

AndSep == B(<<" ", "A", "N", "D", " ">>)

WherePrefix == B(<<"W", "H", "E", "R", "E", " ">>)

\* Query.whereExpr on the clauses of a Query
whereExpr(where) ==
    IF Len(where) = 0 THEN <<>>
    ELSE WherePrefix
             \o Join(whereLoop(where, 1, 0, [j \in 1..Len(where) |-> <<>>]),
                     AndSep)

\* Query.selectArgs
selectArgs(whereParams) == <<>> \o whereParams

InitQuery ==
    /\ kind = "Query"
    /\ val \in QueryHeaps
    /\ arg = Nil
    /\ ret = 1
    /\ op = "new"
    /\ enc = NoBytes
    /\ back = NoBytes

DoWhere ==
    /\ Len(val.qs) < MaxQueries
    /\ \E i \in 1..Len(val.qs), a \in WhereArgs :
           \E r \in {Where(val, i, a.w, a.params)} :
               /\ val' = r.h
               /\ ret' = r.ret
               /\ arg' = [q |-> i, w |-> a.w, params |-> a.params]
    /\ op' = "Where"
    /\ enc' = NoBytes
    /\ UNCHANGED <<kind, back>>

DoAnd ==
    /\ Len(val.qs) < MaxQueries
    /\ \E i \in 1..Len(val.qs), a \in WhereArgs :
           \E r \in {And(val, i, a.w, a.params)} :
               /\ val' = r.h
               /\ ret' = r.ret
               /\ arg' = [q |-> i, w |-> a.w, params |-> a.params]
    /\ op' = "And"
    /\ enc' = NoBytes
    /\ UNCHANGED <<kind, back>>

DoLimit ==
    /\ Len(val.qs) < MaxQueries
    /\ \E i \in 1..Len(val.qs), n \in {1, 2} :
           \E r \in {Limit(val, i, n)} :
               /\ val' = r.h
               /\ ret' = r.ret
               /\ arg' = [q |-> i, n |-> n]
    /\ op' = "Limit"
    /\ enc' = NoBytes
    /\ UNCHANGED <<kind, back>>

DoOffset ==
    /\ Len(val.qs) < MaxQueries
    /\ \E i \in 1..Len(val.qs), n \in {1, 2} :
           \E r \in {Offset(val, i, n)} :
               /\ val' = r.h
               /\ ret' = r.ret
               /\ arg' = [q |-> i, n |-> n]
    /\ op' = "Offset"
    /\ enc' = NoBytes
    /\ UNCHANGED <<kind, back>>

\* q.whereExpr() and q.selectArgs(), as selectSql and Fetch call them
DoWhereExpr ==
    /\ \E i \in 1..Len(val.qs) :
           /\ enc' = [b |-> whereExpr(Elems(val.mem, val.qs[i].where)),
                      err |-> NoErr]
           /\ ret' = selectArgs(Elems(val.mem, val.qs[i].whereParams))
           /\ arg' = [q |-> i]
    /\ op' = "whereExpr"
    /\ UNCHANGED <<kind, val, back>>

NextQuery == DoWhere \/ DoAnd \/ DoLimit \/ DoOffset \/ DoWhereExpr

SpecQuery == InitQuery /\ [][NextQuery]_vars

\* the where-clauses and the bound parameters of Query i
WhereOf(h, i) == Elems(h.mem, h.qs[i].where)

ParamsOf(h, i) == Elems(h.mem, h.qs[i].whereParams)

\* C20: Where, And, Limit and Offset on a Query with no pending error
\* return a new Query and leave the receiver unchanged, and no call changes
\* the where-clauses or the bound parameters of any Query that exists: a
\* Query returned by Where or And holds the receiver's followed by the
\* additions of the call, one returned by Limit or Offset the receiver's.
C20_Independent ==
    [][ (op' \in {"Where", "And", "Limit", "Offset"}
            /\ val.qs[arg'.q].err = NoErr) =>
          /\ ret' = Len(val.qs) + 1
          /\ Len(val'.qs) = ret'
          /\ \A j \in 1..Len(val.qs) :
                /\ val'.qs[j] = val.qs[j]
                /\ WhereOf(val', j) = WhereOf(val, j)
                /\ ParamsOf(val', j) = ParamsOf(val, j)
          /\ op' \in {"Where", "And"} =>
                /\ WhereOf(val', ret') = Append(WhereOf(val, arg'.q), arg'.w)
                /\ ParamsOf(val', ret') = ParamsOf(val, arg'.q) \o arg'.params
          /\ op' \in {"Limit", "Offset"} =>
                /\ WhereOf(val', ret') = WhereOf(val, arg'.q)
                /\ ParamsOf(val', ret') = ParamsOf(val, arg'.q)
      ]_vars

(***************************************************************************)
(* Query: From, For and the terminal calls.  A terminal call reports the   *)
(* error it returns, whether it sent a statement to the database (issued)  *)
(* and the number of rows it read; dbr is what the database does with a    *)
(* statement: fail, return a row, or return a row that does not scan.      *)
(***************************************************************************)
Relations == {Users, Posts, Logs}

ErrRelations == "pql: relations could not be loaded"

\* DB.Relation: [rel, err]; loaded is whether db.Relations() succeeded
Relation(name, loaded) ==
    IF ~loaded THEN [rel |-> NoRel, err |-> ErrRelations]
    ELSE IF \E r \in Relations : r.Name = name
    THEN [rel |-> CHOOSE r \in Relations : r.Name = name, err |-> NoErr]
    ELSE [rel |-> NoRel, err |-> "No relation found: " \o name]

\* DB.From and Tx.From: the Query keeps a nil relation when the lookup fails
From(name, loaded) ==
    [newQuery(Relation(name, loaded).err)
        EXCEPT !.from = Relation(name, loaded).rel]

\* the nil *col and the nil *ref
NoCol == [name |-> <<>>, pk |-> FALSE]

NoRef == [kind |-> "", rel |-> "", col |-> <<>>]

\* Relation.pk: the first primary-key column
pk(r) ==
    IF \E i \in 1..Len(r.cols) : r.cols[i].pk
    THEN r.cols[CHOOSE i \in 1..Len(r.cols) :
                    /\ r.cols[i].pk
                    /\ \A j \in 1..(i - 1) : ~r.cols[j].pk]
    ELSE NoCol

\* Query.refFor: the first reference of within to target of the kind
refFor(refkind, target, within) ==
    IF \E i \in 1..Len(within.refs) :
           within.refs[i].rel = target.Name /\ within.refs[i].kind = refkind
    THEN within.refs[CHOOSE i \in 1..Len(within.refs) :
             /\ within.refs[i].rel = target.Name
             /\ within.refs[i].kind = refkind
             /\ \A j \in 1..(i - 1) :
                    ~(within.refs[j].rel = target.Name
                          /\ within.refs[j].kind = refkind)]
    ELSE NoRef

\* a RecordValue given to For: its relation and its columns, each with a
\* name and a text, or null
NullText == [null |-> TRUE, b |-> <<>>]

TextOf(b) == [null |-> FALSE, b |-> b]

NoValue == [null |-> TRUE, b |-> <<>>, nil |-> TRUE]

\* RecordValue.ValueBy on such a record: NoValue for a nil Value
forValueBy(v, name) ==
    IF \E i \in 1..Len(v.cols) : v.cols[i].name = name
    THEN v.cols[CHOOSE i \in 1..Len(v.cols) :
                    /\ v.cols[i].name = name
                    /\ \A j \in 1..(i - 1) : v.cols[j].name # name].v
    ELSE NoValue

PanicNilValue == "panic: invalid memory address or nil pointer dereference"

EqOne == B(<<" ", "=", " ", "$", "1">>)

\* the returns of For that set q2.err
forErr(h, q2, err) ==
    [h |-> [h EXCEPT !.qs = Append(@, [q2 EXCEPT !.err = err])],
     ret |-> Len(h.qs) + 1]

\* return q2.Where(w, param): the Query Where returns takes the place of q2
forWhere(h, q2, w, param) ==
    [h |-> [qs |-> Append(h.qs,
                Where([h EXCEPT !.qs = Append(@, q2)], Len(h.qs) + 1,
                      w, <<param>>).h.qs[Len(h.qs) + 2]),
            mem |-> Where([h EXCEPT !.qs = Append(@, q2)], Len(h.qs) + 1,
                          w, <<param>>).h.mem],
     ret |-> Len(h.qs) + 1]

\* For, the has-one branch: select from x where pk = v.fk
forHasOne(h, q, q2, v, ref) ==
    IF "nil" \in DOMAIN forValueBy(v, ref.col)
    THEN forErr(h, q2, "No column for " \o v.rel.Name)
    ELSE IF forValueBy(v, ref.col).null
    THEN forErr(h, q2,
             "RecordValue for " \o v.rel.Name \o " has a NULL foreign key")
    ELSE IF pk(q.from) = NoCol
    THEN forErr(h, q2, q.from.Name
                    \o " must have a primary key to use in For query")
    ELSE forWhere(h, q2, pk(q.from).name \o EqOne, forValueBy(v, ref.col).b)

\* For, the has-many branch: select from x where fk = v.pk
forHasMany(h, q, q2, v, ref) ==
    IF pk(v.rel) = NoCol
    THEN forErr(h, q2, "RecordValue for " \o v.rel.Name
                    \o " must have a primary key to use in For query")
    ELSE IF "nil" \in DOMAIN forValueBy(v, pk(v.rel).name)
    THEN forErr(h, q2, PanicNilValue)
    ELSE IF forValueBy(v, pk(v.rel).name).null
    THEN forErr(h, q2,
             "RecordValue for " \o v.rel.Name \o " has a NULL primary key")
    ELSE forWhere(h, q2, ref.col \o EqOne, forValueBy(v, pk(v.rel).name).b)

\* Query.For on Query i of heap h: [h, ret]
For(h, i, v) ==
    IF h.qs[i].err # NoErr THEN [h |-> h, ret |-> i]
    ELSE IF v.rel = NoRel THEN forErr(h, cp(h.qs[i]), ErrPending)
    ELSE IF refFor("r_hasOne", h.qs[i].from, v.rel) # NoRef
    THEN forHasOne(h, h.qs[i], cp(h.qs[i]), v,
                   refFor("r_hasOne", h.qs[i].from, v.rel))
    ELSE IF refFor("r_hasMany", h.qs[i].from, v.rel) # NoRef
    THEN forHasMany(h, h.qs[i], cp(h.qs[i]), v,
                    refFor("r_hasMany", h.qs[i].from, v.rel))
    ELSE forErr(h, cp(h.qs[i]),
                "No reference columns between " \o h.qs[i].from.Name
                    \o " and " \o v.rel.Name)

ErrQuery == "sql: the statement failed"

ErrRowScan == "sql: the row does not scan"

DbOutcomes == {"error", "row", "badrow"}

NotIssued(err) == [err |-> err, issued |-> FALSE, n |-> 0]

\* Query.rows: the statement goes to the database unless an error is pending
rows(q, dbr) ==
    IF q.err # NoErr THEN NotIssued(q.err)
    ELSE IF dbr = "error" THEN [err |-> ErrQuery, issued |-> TRUE, n |-> 0]
    ELSE [err |-> NoErr, issued |-> TRUE, n |-> 1]

\* Query.query: every row is scanned into a new record of the relation
query(q, dbr) ==
    IF rows(q, dbr).err # NoErr THEN rows(q, dbr)
    ELSE IF dbr = "badrow"
    THEN [err |-> ErrRowScan, issued |-> TRUE, n |-> 0]
    ELSE rows(q, dbr)

\* a Fetch that does not look at the pending error
FetchAnyway(q, dbr) == query([q EXCEPT !.err = NoErr], dbr)

\* Query.Fetch
Fetch(q, dbr) ==
    IF q.err # NoErr THEN NotIssued(q.err) ELSE query(q, dbr)

\* Query.FetchOne on Query i of heap h: q.Limit(1).Fetch()
FetchOne(h, i, dbr) == Fetch(Limit(h, i, 1).h.qs[Limit(h, i, 1).ret], dbr)

\* return q.Where(s, pk).FetchOne(): the Query of Where is not kept, what
\* its appends wrote into the arrays that exist is
getFetchOne(h, w, dbr) ==
    [h |-> [h EXCEPT !.mem = SubSeq(w.h.mem, 1, Len(h.mem))],
     r |-> FetchOne(w.h, w.ret, dbr)]

\* Query.Get on Query i of heap h: [h, r]
Get(h, i, key, dbr) ==
    IF h.qs[i].err # NoErr THEN [h |-> h, r |-> NotIssued(h.qs[i].err)]
    ELSE IF pk(h.qs[i].from) = NoCol
    THEN [h |-> h,
          r |-> NotIssued("No primary key found for relation "
                              \o h.qs[i].from.Name)]
    ELSE getFetchOne(h, Where(h, i, pk(h.qs[i].from).name \o EqOne,
                              <<key>>), dbr)

\* Query.agg: the rows are scanned into the one value
agg(q, dbr) ==
    IF q.err # NoErr THEN NotIssued(q.err)
    ELSE IF rows(q, dbr).err # NoErr THEN rows(q, dbr)
    ELSE IF dbr = "badrow"
    THEN [err |-> ErrRowScan, issued |-> TRUE, n |-> 0]
    ELSE rows(q, dbr)

\* Query.Count
Count(q, dbr) == agg(q, dbr)

\* the aggregate of a column: the column is looked up in the relation
aggOf(q, fn, name, dbr) ==
    IF q.err # NoErr THEN NotIssued(q.err)
    ELSE IF \E i \in 1..Len(q.from.cols) : q.from.cols[i].name = name
    THEN agg(q, dbr)
    ELSE NotIssued("could not use " \o fn \o " unknown column name")

\* Query.Sum, Avg, Min, Max and ArrayAgg
Sum(q, name, dbr) == aggOf(q, "sum", name, dbr)

Avg(q, name, dbr) == aggOf(q, "avg", name, dbr)

Min(q, name, dbr) == aggOf(q, "min", name, dbr)

Max(q, name, dbr) == aggOf(q, "max", name, dbr)

ArrayAgg(q, name, dbr) == aggOf(q, "array_agg", name, dbr)

\* the Queries a program starts from: the Query of From for a relation,
\* for a name that is no relation, and when the relations cannot be loaded
FetchHeaps ==
    {[qs |-> <<From(name, loaded)>>, mem |-> <<>>] :
        name \in {"users", "posts", "logs", "nope"}, loaded \in BOOLEAN}

RecordArgs ==
    {[rel |-> NoRel, cols |-> <<>>],
     [rel |-> Posts,
      cols |-> <<[name |-> B(<<"i", "d">>), v |-> TextOf(B(<<"1">>))],
                 [name |-> B(<<"u", "i", "d">>), v |-> TextOf(B(<<"7">>))],
                 [name |-> B(<<"L">>), v |-> TextOf(B(<<"2">>))]>>],
     [rel |-> Posts,
      cols |-> <<[name |-> B(<<"i", "d">>), v |-> TextOf(B(<<"1">>))],
                 [name |-> B(<<"u", "i", "d">>), v |-> NullText],
                 [name |-> B(<<"L">>), v |-> NullText]>>],
     [rel |-> Posts,
      cols |-> <<[name |-> B(<<"i", "d">>), v |-> TextOf(B(<<"1">>))]>>],
     [rel |-> Users,
      cols |-> <<[name |-> B(<<"i", "d">>), v |-> TextOf(B(<<"7">>))],
                 [name |-> B(<<"n">>), v |-> TextOf(B(<<"a">>))]>>],
     [rel |-> Users,
      cols |-> <<[name |-> B(<<"i", "d">>), v |-> NullText],
                 [name |-> B(<<"n">>), v |-> TextOf(B(<<"a">>))]>>],
     [rel |-> Users,
      cols |-> <<[name |-> B(<<"n">>), v |-> TextOf(B(<<"a">>))]>>],
     [rel |-> Logs,
      cols |-> <<[name |-> B(<<"t">>), v |-> TextOf(B(<<"x">>))]>>]}

ColNames == {B(<<"i", "d">>), B(<<"x">>)}

InitFetch ==
    /\ kind = "Query"
    /\ val \in FetchHeaps
    /\ arg = [q |-> 1]
    /\ ret = 1
    /\ op = "new"
    /\ enc = NoBytes
    /\ back = NoBytes

\* the builders of SpecQuery, for one Query fewer: every Query that
\* exists takes every terminal call with every answer of the database
FetchBuild ==
    /\ Len(val.qs) < MaxQueries - 1
    /\ (DoWhere \/ DoAnd \/ DoLimit \/ DoOffset)

DoFor ==
    /\ Len(val.qs) < MaxQueries - 1
    /\ \E i \in 1..Len(val.qs), v \in RecordArgs :
           \E r \in {For(val, i, v)} :
               /\ val' = r.h
               /\ ret' = r.ret
               /\ arg' = [q |-> i, v |-> v]
    /\ op' = "For"
    /\ UNCHANGED <<kind, enc, back>>

DoFetch ==
    /\ \E i \in 1..Len(val.qs), dbr \in DbOutcomes :
           /\ ret' = Fetch(val.qs[i], dbr)
           /\ arg' = [q |-> i, dbr |-> dbr]
    /\ op' = "Fetch"
    /\ UNCHANGED <<kind, val, enc, back>>

DoFetchOne ==
    /\ \E i \in 1..Len(val.qs), dbr \in DbOutcomes :
           /\ ret' = FetchOne(val, i, dbr)
           /\ arg' = [q |-> i, dbr |-> dbr]
    /\ op' = "FetchOne"
    /\ UNCHANGED <<kind, val, enc, back>>

DoGet ==
    /\ \E i \in 1..Len(val.qs), dbr \in DbOutcomes :
           \E r \in {Get(val, i, B(<<"7">>), dbr)} :
               /\ val' = r.h
               /\ ret' = r.r
               /\ arg' = [q |-> i, dbr |-> dbr]
    /\ op' = "Get"
    /\ UNCHANGED <<kind, enc, back>>

DoCount ==
    /\ \E i \in 1..Len(val.qs), dbr \in DbOutcomes :
           /\ ret' = Count(val.qs[i], dbr)
           /\ arg' = [q |-> i, dbr |-> dbr]
    /\ op' = "Count"
    /\ UNCHANGED <<kind, val, enc, back>>

DoSum ==
    /\ \E i \in 1..Len(val.qs), name \in ColNames, dbr \in DbOutcomes :
           /\ ret' = Sum(val.qs[i], name, dbr)
           /\ arg' = [q |-> i, name |-> name, dbr |-> dbr]
    /\ op' = "Sum"
    /\ UNCHANGED <<kind, val, enc, back>>

DoAvg ==
    /\ \E i \in 1..Len(val.qs), name \in ColNames, dbr \in DbOutcomes :
           /\ ret' = Avg(val.qs[i], name, dbr)
           /\ arg' = [q |-> i, name |-> name, dbr |-> dbr]
    /\ op' = "Avg"
    /\ UNCHANGED <<kind, val, enc, back>>

DoMin ==
    /\ \E i \in 1..Len(val.qs), name \in ColNames, dbr \in DbOutcomes :
           /\ ret' = Min(val.qs[i], name, dbr)
           /\ arg' = [q |-> i, name |-> name, dbr |-> dbr]
    /\ op' = "Min"
    /\ UNCHANGED <<kind, val, enc, back>>

DoMax ==
    /\ \E i \in 1..Len(val.qs), name \in ColNames, dbr \in DbOutcomes :
           /\ ret' = Max(val.qs[i], name, dbr)
           /\ arg' = [q |-> i, name |-> name, dbr |-> dbr]
    /\ op' = "Max"
    /\ UNCHANGED <<kind, val, enc, back>>

DoArrayAgg ==
    /\ \E i \in 1..Len(val.qs), name \in ColNames, dbr \in DbOutcomes :
           /\ ret' = ArrayAgg(val.qs[i], name, dbr)
           /\ arg' = [q |-> i, name |-> name, dbr |-> dbr]
    /\ op' = "ArrayAgg"
    /\ UNCHANGED <<kind, val, enc, back>>

NextFetch ==
    \/ FetchBuild \/ DoFor
    \/ DoFetch \/ DoFetchOne \/ DoGet \/ DoCount
    \/ DoSum \/ DoAvg \/ DoMin \/ DoMax \/ DoArrayAgg

SpecFetch == InitFetch /\ [][NextFetch]_vars

Builders == {"Where", "And", "For", "Limit", "Offset"}

Terminals ==
    {"Fetch", "FetchOne", "Get", "Count", "Sum", "Avg", "Min", "Max",
     "ArrayAgg"}

\* C21: on a Query that carries a pending error, Where, And, For, Limit
\* and Offset return that Query and create none, and Fetch, FetchOne, Get,
\* Count, Sum, Avg, Min, Max and ArrayAgg return that error and send no
\* statement to the database; no Query that exists changes.
C21_PendingError ==
    [][ val.qs[arg'.q].err # NoErr =>
          /\ val' = val
          /\ op' \in Builders => ret' = arg'.q
          /\ op' \in Terminals =>
                /\ ret'.err = val.qs[arg'.q].err
                /\ ~ret'.issued
      ]_vars

\* a terminal call has answered with the pending error of a Query whose
\* relation From did not find
C21_Witness ==
    /\ op \in Terminals
    /\ val.qs[arg.q].err = "No relation found: nope"
    /\ ret.err = "No relation found: nope"
    /\ ~ret.issued

(***************************************************************************)
(* The WHERE expression of a Query (SpecQuery)                             *)
(***************************************************************************)
\* st with k added to the number of every placeholder from match j on
RECURSIVE Shifted(_, _, _, _, _)
Shifted(st, ms, j, p, k) ==
    IF j > Len(ms) THEN Slice(st, p, Len(st))
    ELSE Slice(st, p, ms[j].a + 2)
             \o itoa(atoi(Slice(st, ms[j].a + 2, ms[j].z)) + k)
             \o Shifted(st, ms, j + 1, ms[j].z, k)

\* the number of parameters a clause binds: its placeholders are $1, $2, ...
BoundBy(st) == placeMax(st, 0)

\* the number of parameters the clauses before clause j bind
RECURSIVE BoundBefore(_, _)
BoundBefore(where, j) ==
    IF j = 1 THEN 0
    ELSE BoundBefore(where, j - 1) + BoundBy(where[j - 1])

\* the clauses of where, each renumbered past the parameters of the
\* clauses before it
Renumbered(where) ==
    [j \in 1..Len(where) |->
        Shifted(where[j], placePat(where[j], 0), 1, 0,
                BoundBefore(where, j))]

\* C25: the WHERE expression of a Query whose clauses each number their
\* placeholders from $1 holds every clause with each $x renumbered to x
\* plus the number of parameters the clauses before it bind, so that no
\* two clauses name the same parameter.
C25_Renumbered ==
    (/\ op = "whereExpr"
     /\ WhereOf(val, arg.q) # <<>>
     /\ \A j \in 1..Len(WhereOf(val, arg.q)) :
            placePat(WhereOf(val, arg.q)[j], 0) # <<>>) =>
        enc.b = WherePrefix \o Join(Renumbered(WhereOf(val, arg.q)), AndSep)

\* st without the numbers of its placeholders, from match j on
RECURSIVE Unnumbered(_, _, _, _)
Unnumbered(st, ms, j, p) ==
    IF j > Len(ms) THEN Slice(st, p, Len(st))
    ELSE Slice(st, p, ms[j].a + 2) \o Unnumbered(st, ms, j + 1, ms[j].z)

Skeleton(st) == Unnumbered(st, placePat(st, 0), 1, 0)

\* C26: the WHERE expression holds every condition given to Where and And,
\* in the order of the calls and joined by AND, whether the condition has
\* a placeholder or not (the numbers of the placeholders aside).
C26_AllConditions ==
    (op = "whereExpr" /\ WhereOf(val, arg.q) # <<>>) =>
        Skeleton(enc.b) =
            WherePrefix
                \o Join([j \in 1..Len(WhereOf(val, arg.q)) |->
                            Skeleton(WhereOf(val, arg.q)[j])], AndSep)

====
